---- MODULE Spec2Model ----
(***************************************************************************)
(* Breakpoint / watchpoint managers and the event dispatch routers of      *)
(* hilda (hilda/breakpoints.py, hilda/watchpoints.py,                       *)
(* hilda/hilda_client.py, hilda/launch_lldb.py).                            *)
(*                                                                         *)
(* The debugger engine (LLDB) is modelled by the API the code uses:         *)
(*   target_breakpoints : the live native breakpoints of the target, by     *)
(*                        engine-assigned id (ids are never reused);        *)
(*   target_watchpoints : the live native watchpoints of the target.        *)
(* Python values are modelled by strings: "None" is None, a where is the    *)
(* text of an address or of a symbol name.                                  *)
(***************************************************************************)
EXTENDS Integers, FiniteSets, Sequences, TLC

\* ------------------------------------------------------------------ bounds
MaxId == 2              \* engine breakpoint ids handed out in one run
MaxWpId == 2            \* engine watchpoint ids handed out in one run
MaxStops == 2           \* stops of the process in one run
MaxOps == 2             \* frame / run-control calls one user callback makes
MaxCreated == 2         \* Symbol objects made for one sym_id
MaxNameIds == 2         \* entries of one name in _symbols_by_name
MaxScans == 2           \* enumerations of one module's symbol table
WordBits == 3           \* bits of an address (64 in Symbol.create, scaled down)
MaxPlain == 12          \* magnitude of the integers Symbol arithmetic is followed over

\* ------------------------------------------------------------- value sets
None == "None"
IntWhere == "0x2000"                    \* where given as an address (int / Symbol)
TupleWhere == "(isdigit, libsystem_c)"  \* where given as (name, module)
Wheres == {IntWhere, "isdigit"}         \* an address, or a symbol name (str)
BreakpointNames == {"hook", "trace"}    \* the names given to breakpoints
Callbacks == {"cb1", "cb2"}
OptCallbacks == Callbacks \cup {None}
OptConditions == {None, "c1"}
Ids == 1..(MaxId + 1)
WpIds == 1..(MaxWpId + 1)
WpAddresses == {"0x3000"}
Threads == {"engine", "listener"}

VARIABLES
    target_breakpoints, \* engine: id -> [loc, condition, names, enabled, wired]
    next_bp_id,         \* engine: the id the next native breakpoint gets
    _breakpoints,       \* BreakpointList._breakpoints: id -> [where, callback, guarded]
    breakpoints,        \* HildaClient.breakpoints: id -> [address, forced, callback]
    target_watchpoints, \* engine: id -> [address, size, condition, wired]
    next_wp_id,         \* engine: the id the next native watchpoint gets
    _watchpoints,       \* WatchpointList._watchpoints: id -> [where, callback]
    _bp_frame,          \* HildaClient._bp_frame
    last,               \* the operation that was performed last, and its outcome
    process_state,      \* engine: SBProcess.GetState(), "stopped" or "running"
    stop,               \* engine: the stop of the stopped thread, [reason, id, pending]
    selected_frame,     \* engine: the selected frame of the selected thread
    is_async,           \* engine: SBDebugger.GetAsync()
    events,             \* engine: process state events queued for the listener
    stops,              \* number of stops the process has made
    last_state,         \* LLDBListenerThread.run: last_state
    pc,                 \* where each thread is inside the dispatch router
    ctx,                \* the arguments and locals of the router call of each thread
    escaped,            \* the exception that left the last router call of each thread
    options,            \* the options the monitor breakpoint was created with
    name,               \* add_monitor's `name`, the variable its callback closes over
    log_message,        \* what the monitor callback logged on the last hit
    modules,            \* engine: target.modules, the loaded modules in load order
    added_symbols,      \* engine: the symbols added with `target symbols add`
    _symbols,           \* SymbolList._symbols of each list: sym_id -> Symbol
    _symbols_by_name,   \* SymbolList._symbols_by_name of each list: name -> sym_ids
    _modules,           \* SymbolList._modules of the global list
    scans,              \* number of times each module's symbol table was enumerated
    created,            \* number of Symbol objects created for each sym_id
    sym_last,           \* the symbol operation that was performed last, and its outcome
    symbols_jar,        \* HildaClient.symbols: name -> address
    saved_state,        \* the file save() writes and load() reads: Nothing or Some(name -> address)
    _symbols_loaded,    \* HildaClient._symbols_loaded
    _dynamic_env_loaded, \* HildaClient._dynamic_env_loaded
    is_running          \* HildaClient.stopped: `is_running` of each open context, outermost first

bpvars == <<target_breakpoints, next_bp_id, _breakpoints, breakpoints>>
wpvars == <<target_watchpoints, next_wp_id, _watchpoints>>
procvars == <<process_state, stop, selected_frame, is_async, events, stops>>
dvars == <<last_state, pc, ctx, escaped>>
monvars == <<options, name, log_message>>
clientvars == <<symbols_jar, saved_state, _symbols_loaded, _dynamic_env_loaded, is_running>>
symvars == <<modules, added_symbols, _symbols, _symbols_by_name, _modules, scans, created,
             sym_last>>
vars == <<target_breakpoints, next_bp_id, _breakpoints, breakpoints,
          target_watchpoints, next_wp_id, _watchpoints, _bp_frame, last,
          process_state, stop, selected_frame, is_async, events, stops,
          last_state, pc, ctx, escaped, options, name, log_message,
          modules, added_symbols, _symbols, _symbols_by_name, _modules, scans, created,
          sym_last, symbols_jar, saved_state, _symbols_loaded, _dynamic_env_loaded,
          is_running>>

\* ---------------------------------------------------------------- helpers
Without(f, S) == [i \in DOMAIN f \ S |-> f[i]]
With(f, i, v) == [j \in DOMAIN f \cup {i} |-> IF j = i THEN v ELSE f[j]]

Op(op, id, where, callback, condition, flag, raised, removed) ==
    [op |-> op, id |-> id, where |-> where, callback |-> callback,
     condition |-> condition, flag |-> flag, raised |-> raised, removed |-> removed]

\* the frames of the stopped thread, innermost first: a hit stops in the
\* first, StepOutOfFrame selects the next
FrameNames == <<"callee", "caller", "caller2", "caller3", "caller4", "caller5">>
FrameIndex(f) == CHOOSE i \in 1..Len(FrameNames) : FrameNames[i] = f
IsFrame(f) == \E i \in 1..Len(FrameNames) : FrameNames[i] = f
CallerOf(f) == IF FrameIndex(f) < Len(FrameNames) THEN FrameNames[FrameIndex(f) + 1] ELSE f

NoOptions == [impl |-> None, name |-> None, regs |-> <<>>, expr |-> <<>>,
              force_return |-> None, bt |-> FALSE, retval |-> None, cmd |-> <<>>,
              stop |-> FALSE]
NoLog == [hit |-> 0, printed_name |-> None, finishes |-> 0,
          bt_frame |-> None, retval_frame |-> None, entries |-> <<>>, trace |-> <<>>]
NoStop == [reason |-> None, id |-> 0, pending |-> FALSE]
NoCall == [kind |-> None, id |-> 0, frame |-> None, callback |-> None,
           exc |-> None, ops |-> 0, did |-> None, finished |-> FALSE]

\* ============================================================ BreakpointList
\* HildaBreakpoint.__init__ for a breakpoint found in the target but not in the table
AdoptedBreakpoint == [where |-> None, callback |-> None, guarded |-> FALSE]

\* a mutation of BpGetTable: the HildaBreakpoint made for a breakpoint created outside the
\* API is returned without being stored
BpGetTableForgets(tgt, book, id) == book

\* BreakpointList.get(id): the table after the lookup (an unknown valid id is adopted)
BpGetTable(tgt, book, id) ==
    IF id \in DOMAIN tgt /\ id \notin DOMAIN book
    THEN With(book, id, AdoptedBreakpoint) ELSE book

\* BreakpointList.__iter__: self[bp.GetID()] for every native breakpoint
BpIterTable(tgt, book) ==
    [id \in DOMAIN book \cup DOMAIN tgt |->
        IF id \in DOMAIN book THEN book[id] ELSE AdoptedBreakpoint]

\* BreakpointList.remove: <<target, table, raised>> after remove(id, remove_guarded)
BpRemoveIgnoresGuard(tgt, book, id, remove_guarded) ==
    IF id \notin DOMAIN tgt THEN <<tgt, book, "KeyError">>
    ELSE <<Without(tgt, {id}), BpGetTable(tgt, book, id), None>>

BpRemove(tgt, book, id, remove_guarded) ==
    IF id \notin DOMAIN tgt THEN <<tgt, book, "KeyError">>
    ELSE LET book1 == BpGetTable(tgt, book, id) IN
         IF book1[id].guarded /\ ~remove_guarded THEN <<tgt, book1, None>>
         ELSE <<Without(tgt, {id}), book1, None>>

\* the ids `del self[bp]` deletes in add(): remove() without remove_guarded
BpOverrideVictimsNone(tgt, book, where) == {}

BpOverrideVictims(tgt, book, where) ==
    {id \in DOMAIN tgt : book[id].where = where /\ BpRemove(tgt, book, id, FALSE)[1] # tgt}

\* a mutation of BpAdd: a (name, module) pair is handed to the engine like a name
BpAddTupleByName(where, callback, condition, guarded, override, confirm, valid) ==
    LET book1 == BpIterTable(target_breakpoints, _breakpoints)
        id == next_bp_id
    IN  /\ target_breakpoints' = With(target_breakpoints, id,
               [loc |-> where, condition |-> condition, names |-> {}, enabled |-> TRUE,
                wired |-> IF callback # None THEN "list" ELSE None])
        /\ _breakpoints' = With(book1, id,
               [where |-> where, callback |-> callback, guarded |-> guarded])
        /\ next_bp_id' = id + 1
        /\ last' = Op("add", id, where, callback, condition, override, None, {})
\* BreakpointList.add
BpAdd(where, callback, condition, guarded, override, confirm, valid) ==
    LET book1 == BpIterTable(target_breakpoints, _breakpoints)
        conflict == \E id \in DOMAIN target_breakpoints : book1[id].where = where
        victims == IF conflict /\ (override \/ confirm)
                   THEN BpOverrideVictims(target_breakpoints, book1, where) ELSE {}
        tgt1 == Without(target_breakpoints, victims)
        id == next_bp_id
    IN  IF where = TupleWhere
        THEN /\ target_breakpoints' = tgt1
             /\ _breakpoints' = book1
             /\ next_bp_id' = next_bp_id
             /\ last' = Op("add", 0, where, None, None, override, "NotImplementedError", victims)
        ELSE IF ~valid
        THEN /\ target_breakpoints' = tgt1
             /\ _breakpoints' = book1
             /\ next_bp_id' = next_bp_id
             /\ last' = Op("add", 0, where, None, None, override, "Exception", victims)
        ELSE /\ target_breakpoints' = With(tgt1, id,
                    [loc |-> where, condition |-> condition, names |-> {}, enabled |-> TRUE,
                     wired |-> IF callback # None THEN "list" ELSE None])
             /\ _breakpoints' = With(book1, id,
                    [where |-> where, callback |-> callback, guarded |-> guarded])
             /\ next_bp_id' = id + 1
             /\ last' = Op("add", id, where, callback, condition, override, None, victims)

add ==
    /\ next_bp_id <= MaxId
    /\ \E where \in Wheres \cup {TupleWhere}, callback \in OptCallbacks,
          condition \in OptConditions, guarded \in BOOLEAN,
          override \in BOOLEAN, confirm \in BOOLEAN, valid \in BOOLEAN :
          /\ (override => confirm)     \* the prompt is only shown without override
          \* a call that raises passes its other arguments nowhere
          /\ ((where = TupleWhere \/ ~valid)
                 => (callback = None /\ condition = None /\ ~guarded /\ valid = (where = TupleWhere)))
          /\ BpAdd(where, callback, condition, guarded, override, confirm, valid)
    /\ UNCHANGED <<breakpoints, wpvars, _bp_frame, procvars, dvars, monvars, clientvars, symvars>>

\* BreakpointList.remove / __delitem__ / HildaBreakpoint.remove
remove ==
    /\ \E id \in Ids, remove_guarded \in BOOLEAN :
          LET r == BpRemove(target_breakpoints, _breakpoints, id, remove_guarded) IN
          /\ (id \notin DOMAIN target_breakpoints => ~remove_guarded)  \* the flag is not read
          /\ target_breakpoints' = r[1]
          /\ _breakpoints' = r[2]
          /\ last' = Op("remove", id, None, None, None, remove_guarded, r[3],
                        DOMAIN target_breakpoints \ DOMAIN r[1])
    /\ UNCHANGED <<next_bp_id, breakpoints, wpvars, _bp_frame, procvars, dvars, monvars, clientvars, symvars>>

\* a mutation of BpClear: the loop runs over the live collection instead of a snapshot,
\* so the breakpoint that follows a removed one moves into its position and is skipped
BpClearLive(remove_guarded) ==
    LET book1 == BpIterTable(target_breakpoints, _breakpoints)
        RECURSIVE Visit(_, _)
        \* the breakpoints left after the loop, `i` being the position it reads next
        Visit(live, i) ==
            IF i > Len(live) THEN live
            ELSE IF ~remove_guarded /\ book1[live[i]].guarded THEN Visit(live, i + 1)
            ELSE Visit(SelectSeq(live, LAMBDA id : id # live[i]), i + 1)
        ids == DOMAIN target_breakpoints
        snapshot == CHOOSE live \in [1..Cardinality(ids) -> ids] :
                       \A i, j \in DOMAIN live : i < j => live[i] < live[j]
        left == Visit(snapshot, 1)
        victims == ids \ {left[i] : i \in DOMAIN left}
    IN  /\ target_breakpoints' = Without(target_breakpoints, victims)
        /\ _breakpoints' = book1
        /\ last' = Op("clear", 0, None, None, None, remove_guarded, None, victims)
\* BreakpointList.clear: remove() for every breakpoint of the snapshot list(self)
BpClear(remove_guarded) ==
    LET book1 == BpIterTable(target_breakpoints, _breakpoints)
        victims == {id \in DOMAIN target_breakpoints :
                       /\ ~(~remove_guarded /\ book1[id].guarded)
                       /\ BpRemove(target_breakpoints, book1, id, remove_guarded)[1]
                            # target_breakpoints}
    IN  /\ target_breakpoints' = Without(target_breakpoints, victims)
        /\ _breakpoints' = book1
        /\ last' = Op("clear", 0, None, None, None, remove_guarded, None, victims)

clear ==
    /\ \E remove_guarded \in BOOLEAN : BpClear(remove_guarded)
    /\ UNCHANGED <<next_bp_id, breakpoints, wpvars, _bp_frame, procvars, dvars, monvars, clientvars, symvars>>

\* a mutation of _dispatch_breakpoint_callback: the breakpoint is deleted once it was hit
_dispatch_breakpoint_callback_once ==
    /\ \E id \in DOMAIN target_breakpoints :
          /\ target_breakpoints[id].wired = "list"
          /\ target_breakpoints[id].enabled
          /\ target_breakpoints' = Without(target_breakpoints, {id})
          /\ _breakpoints' = BpGetTable(target_breakpoints, _breakpoints, id)
          /\ _bp_frame' = None
          /\ last' = Op("hit", id, target_breakpoints[id].loc, _breakpoints'[id].callback,
                        None, FALSE, None, {})
    /\ UNCHANGED <<next_bp_id, breakpoints, wpvars, procvars, dvars, monvars, clientvars, symvars>>
\* BreakpointList._dispatch_breakpoint_callback, the callback taken as one step:
\* it returns normally or raises; the engine calls it for a hit of an enabled breakpoint
_dispatch_breakpoint_callback ==
    /\ \E id \in DOMAIN target_breakpoints, raises \in BOOLEAN :
          LET book1 == BpGetTable(target_breakpoints, _breakpoints, id)
              callback == book1[id].callback
          IN  /\ target_breakpoints[id].wired = "list"
              /\ target_breakpoints[id].enabled
              /\ (callback = None => ~raises)
              /\ _breakpoints' = book1
              /\ _bp_frame' = None
              /\ last' = Op("hit", id, target_breakpoints[id].loc, callback, None, FALSE,
                            IF raises THEN "CallbackError" ELSE None, {})
    /\ UNCHANGED <<target_breakpoints, next_bp_id, breakpoints, wpvars, procvars, dvars, monvars, clientvars, symvars>>

\* BreakpointList.get / __getitem__ / __contains__ for a key <<id, name>>, one of the two
\* being given: the table, the id of the breakpoint returned (0 for none) and what is raised
BpGet(tgt, book, key, how) ==
    LET found == IF key[2] = None THEN {key[1]} \cap DOMAIN tgt
                 ELSE {id \in DOMAIN tgt : key[2] \in tgt[id].names}
        bp_id == CHOOSE id \in found : TRUE
    IN  IF Cardinality(found) > 1 THEN [book |-> book, id |-> 0, raised |-> "KeyError"]
        ELSE IF found = {}
        THEN [book |-> book, id |-> 0,
              raised |-> IF how = "getitem" THEN "KeyError" ELSE None]
        ELSE [book |-> BpGetTable(tgt, book, bp_id), id |-> bp_id, raised |-> None]

\* breakpoints.get(key), breakpoints[key], key in breakpoints
get ==
    /\ \E key \in {<<id, None>> : id \in Ids} \cup {<<0, n>> : n \in BreakpointNames},
          how \in {"get", "getitem", "contains"} :
          LET got == BpGet(target_breakpoints, _breakpoints, key, how)
          IN  /\ _breakpoints' = got.book
              /\ last' = Op(how, got.id, key[2], None, None, got.id # 0, got.raised, {key[1]})
    /\ UNCHANGED <<target_breakpoints, next_bp_id, breakpoints, wpvars, _bp_frame, procvars, dvars, monvars, clientvars, symvars>>

\* len(breakpoints) and list(breakpoints): last.id is the length, last.removed the ids of
\* the breakpoints the iteration yields
iterate ==
    /\ _breakpoints' = BpIterTable(target_breakpoints, _breakpoints)
    /\ last' = Op("iter", Cardinality(DOMAIN target_breakpoints), None, None, None, FALSE,
                  None, {id \in DOMAIN target_breakpoints :
                           BpGet(target_breakpoints, _breakpoints, <<id, None>>, "getitem").raised
                             = None})
    /\ UNCHANGED <<target_breakpoints, next_bp_id, breakpoints, wpvars, _bp_frame, procvars, dvars, monvars, clientvars, symvars>>

\* HildaBreakpoint.enabled (setter), on breakpoints[id]
enabled_setter ==
    /\ \E id \in DOMAIN target_breakpoints, value \in BOOLEAN :
          /\ target_breakpoints' = [target_breakpoints EXCEPT ![id].enabled = value]
          /\ _breakpoints' = BpGetTable(target_breakpoints, _breakpoints, id)
          /\ last' = Op("enabled", id, None, None, None, value, None, {})
    /\ UNCHANGED <<next_bp_id, breakpoints, wpvars, _bp_frame, procvars, dvars, monvars, clientvars, symvars>>

\* HildaBreakpoint.names (setter) and HildaBreakpoint.name (setter), on breakpoints[id]
names_setter ==
    /\ \E id \in DOMAIN target_breakpoints, new_names \in SUBSET BreakpointNames :
          /\ target_breakpoints' = [target_breakpoints EXCEPT ![id].names = new_names]
          /\ _breakpoints' = BpGetTable(target_breakpoints, _breakpoints, id)
          /\ last' = Op("names", id, None, None, None, FALSE, None, {})
    /\ UNCHANGED <<next_bp_id, breakpoints, wpvars, _bp_frame, procvars, dvars, monvars, clientvars, symvars>>

\* a breakpoint created in the engine outside of the Hilda API
EngineBreakpointCreate ==
    /\ next_bp_id <= MaxId
    /\ \E loc \in {IntWhere} :
          /\ target_breakpoints' = With(target_breakpoints, next_bp_id,
                 [loc |-> loc, condition |-> None, names |-> {}, enabled |-> TRUE, wired |-> None])
          /\ last' = Op("engine_create", next_bp_id, loc, None, None, FALSE, None, {})
    /\ next_bp_id' = next_bp_id + 1
    /\ UNCHANGED <<_breakpoints, breakpoints, wpvars, _bp_frame, procvars, dvars, monvars, clientvars, symvars>>

\* ================================================= HildaClient (bp / monitor API)
\* HildaClient.remove_hilda_breakpoint: <<target, table, raised>>
ClientRemove(tgt, tbl, bp_id) ==
    IF bp_id \notin DOMAIN tbl THEN <<Without(tgt, {bp_id}), tbl, "KeyError">>
    ELSE <<Without(tgt, {bp_id}), Without(tbl, {bp_id}), None>>

\* HildaClient.bp
ClientBp(address_or_name, callback, condition, forced, override, confirm) ==
    LET conflict == \E id \in DOMAIN breakpoints : breakpoints[id].address = address_or_name
        victims == IF conflict /\ (override \/ confirm)
                   THEN {id \in DOMAIN breakpoints : breakpoints[id].address = address_or_name}
                   ELSE {}
        id == next_bp_id
    IN  /\ target_breakpoints' = With(Without(target_breakpoints, victims), id,
               [loc |-> address_or_name, condition |-> condition, names |-> {}, enabled |-> TRUE,
                wired |-> IF callback # None THEN "client" ELSE None])
        /\ breakpoints' = With(Without(breakpoints, victims), id,
               [address |-> address_or_name, forced |-> forced, callback |-> callback])
        /\ next_bp_id' = id + 1
        /\ last' = Op("bp", id, address_or_name, callback, condition, override, None, victims)

bp ==
    /\ next_bp_id <= MaxId
    /\ \E address_or_name \in Wheres, callback \in OptCallbacks,
          condition \in OptConditions, forced \in BOOLEAN,
          override \in BOOLEAN, confirm \in BOOLEAN :
          /\ (override => confirm)
          /\ ClientBp(address_or_name, callback, condition, forced, override, confirm)
    /\ UNCHANGED <<_breakpoints, wpvars, _bp_frame, procvars, dvars, monvars, clientvars, symvars>>

remove_hilda_breakpoint ==
    /\ \E bp_id \in Ids :
          LET r == ClientRemove(target_breakpoints, breakpoints, bp_id) IN
          /\ target_breakpoints' = r[1]
          /\ breakpoints' = r[2]
          /\ last' = Op("remove_hilda_breakpoint", bp_id, None, None, None, FALSE, r[3],
                        DOMAIN target_breakpoints \ DOMAIN r[1])
    /\ UNCHANGED <<next_bp_id, _breakpoints, wpvars, _bp_frame, procvars, dvars, monvars, clientvars, symvars>>

\* HildaClient.remove_all_hilda_breakpoints
remove_all_hilda_breakpoints ==
    /\ \E remove_forced \in BOOLEAN :
          LET victims == {id \in DOMAIN breakpoints :
                             remove_forced \/ ~breakpoints[id].forced} IN
          /\ target_breakpoints' = Without(target_breakpoints, victims)
          /\ breakpoints' = Without(breakpoints, victims)
          /\ last' = Op("remove_all_hilda_breakpoints", 0, None, None, None, remove_forced,
                        None, victims)
    /\ UNCHANGED <<next_bp_id, _breakpoints, wpvars, _bp_frame, procvars, dvars, monvars, clientvars, symvars>>

\* HildaClient.bp_callback_router, the callback taken as one step
bp_callback_router ==
    /\ \E id \in DOMAIN target_breakpoints, raises \in BOOLEAN :
          /\ target_breakpoints[id].wired = "client"
          /\ _bp_frame' = None
          /\ last' = IF id \notin DOMAIN breakpoints
                     THEN Op("client_hit", id, target_breakpoints[id].loc, None, None, FALSE,
                             "KeyError", {})
                     ELSE Op("client_hit", id, target_breakpoints[id].loc,
                             breakpoints[id].callback, None, FALSE,
                             IF raises THEN "CallbackError" ELSE None, {})
    /\ UNCHANGED <<bpvars, wpvars, procvars, dvars, monvars, clientvars, symvars>>

\* ============================================================ WatchpointList
\* HildaWatchpoint.__init__ for a watchpoint found in the target but not in the table
AdoptedWatchpoint == [where |-> None, callback |-> None]

\* WatchpointList.get(id): the table after the lookup
WpGetTable(tgt, book, id) ==
    IF id \in DOMAIN tgt /\ id \notin DOMAIN book
    THEN With(book, id, AdoptedWatchpoint) ELSE book

\* WatchpointList.__iter__
WpIterTable(tgt, book) ==
    [id \in DOMAIN book \cup DOMAIN tgt |->
        IF id \in DOMAIN book THEN book[id] ELSE AdoptedWatchpoint]

\* WatchpointList.remove: <<target, table, raised>>
WpRemove(tgt, book, id) ==
    IF id \notin DOMAIN tgt THEN <<tgt, book, "KeyError">>
    ELSE <<Without(tgt, {id}), WpGetTable(tgt, book, id), None>>

\* a mutation of WpAdd: the watchpoints already set at `where` are deleted first, as
\* BreakpointList.add does with override
WpAddOverrides(where, read, write, callback, condition, valid) ==
    LET id == next_wp_id
        victims == {i \in DOMAIN target_watchpoints : target_watchpoints[i].address = where}
    IN  /\ target_watchpoints' = With(Without(target_watchpoints, victims), id,
               [address |-> where, read |-> read, write |-> write,
                condition |-> condition, wired |-> TRUE])
        /\ _watchpoints' = With(_watchpoints, id, [where |-> where, callback |-> callback])
        /\ next_wp_id' = id + 1
        /\ last' = Op("wp_add", id, where, callback, condition, FALSE, None, victims)
\* WatchpointList.add
WpAdd(where, read, write, callback, condition, valid) ==
    LET id == next_wp_id IN
    IF ~valid
    THEN /\ UNCHANGED <<target_watchpoints, _watchpoints, next_wp_id>>
         /\ last' = Op("wp_add", 0, where, None, None, FALSE, "Exception", {})
    ELSE /\ target_watchpoints' = With(target_watchpoints, id,
                [address |-> where, read |-> read, write |-> write,
                 condition |-> condition, wired |-> TRUE])
         /\ _watchpoints' = With(_watchpoints, id, [where |-> where, callback |-> callback])
         /\ next_wp_id' = id + 1
         /\ last' = Op("wp_add", id, where, callback, condition, FALSE, None, {})

wp_add ==
    /\ next_wp_id <= MaxWpId
    /\ \E where \in WpAddresses, read \in BOOLEAN, write \in BOOLEAN,
          callback \in OptCallbacks, condition \in OptConditions, valid \in BOOLEAN :
          /\ (valid => read \/ write)
          /\ WpAdd(where, read, write, callback, condition, valid)
    /\ UNCHANGED <<bpvars, _bp_frame, procvars, dvars, monvars, clientvars, symvars>>

wp_remove ==
    /\ \E id \in WpIds :
          LET r == WpRemove(target_watchpoints, _watchpoints, id) IN
          /\ target_watchpoints' = r[1]
          /\ _watchpoints' = r[2]
          /\ last' = Op("wp_remove", id, None, None, None, FALSE, r[3],
                        DOMAIN target_watchpoints \ DOMAIN r[1])
    /\ UNCHANGED <<next_wp_id, bpvars, _bp_frame, procvars, dvars, monvars, clientvars, symvars>>

\* WatchpointList.clear
wp_clear ==
    /\ target_watchpoints' = Without(target_watchpoints, DOMAIN target_watchpoints)
    /\ _watchpoints' = WpIterTable(target_watchpoints, _watchpoints)
    /\ last' = Op("wp_clear", 0, None, None, None, FALSE, None, DOMAIN target_watchpoints)
    /\ UNCHANGED <<next_wp_id, bpvars, _bp_frame, procvars, dvars, monvars, clientvars, symvars>>

\* WatchpointList._dispatch_watchpoint_callback called by the engine's watchpoint
\* command, the callback taken as one step
_dispatch_watchpoint_callback ==
    /\ \E id \in DOMAIN target_watchpoints, raises \in BOOLEAN :
          LET book1 == WpGetTable(target_watchpoints, _watchpoints, id)
              callback == book1[id].callback
          IN  /\ target_watchpoints[id].wired
              /\ (callback = None => ~raises)
              /\ _watchpoints' = book1
              /\ _bp_frame' = None
              /\ last' = Op("wp_hit", id, target_watchpoints[id].address, callback, None,
                            FALSE, IF raises THEN "CallbackError" ELSE None, {})
    /\ UNCHANGED <<target_watchpoints, next_wp_id, bpvars, procvars, dvars, monvars, clientvars, symvars>>

\* a watchpoint created in the engine outside of the Hilda API
EngineWatchpointCreate ==
    /\ next_wp_id <= MaxWpId
    /\ \E address \in WpAddresses :
          /\ target_watchpoints' = With(target_watchpoints, next_wp_id,
                 [address |-> address, read |-> TRUE, write |-> TRUE,
                  condition |-> None, wired |-> FALSE])
          /\ last' = Op("engine_wp_create", next_wp_id, address, None, None, FALSE, None, {})
    /\ next_wp_id' = next_wp_id + 1
    /\ UNCHANGED <<_watchpoints, bpvars, _bp_frame, procvars, dvars, monvars, clientvars, symvars>>

\* ======================================================= the engine's symbols
\* an optional value: <<>> is Python's None, <<x>> is x
Nothing == <<>>
Some(x) == <<x>>

\* target.modules: the images the engine can have loaded, in load order; libsystem_c is
\* loaded at 4096 and libobjc at 8192, a symbol is 16 bytes long
AllModules == <<"libsystem_c", "libobjc">>
SymbolSize == 16

EngineSymbol(n, address, type, m) ==
    [name |-> n, address |-> address, type |-> type, module |-> m]

\* lldb_module.symbols of each image, as the image's symbol table lists them
ModuleTable(m) ==
    IF m = "libsystem_c"
    THEN << EngineSymbol("isdigit", 4096, "Code", m),
            EngineSymbol("isdigit$UNIX2003", 4096, "Code", m),
            EngineSymbol("<redacted>", 4128, "Code", m),
            EngineSymbol("dup", 4608, "Code", m) >>
    ELSE << EngineSymbol("dup", 8704, "Code", m),
            EngineSymbol("tramp", 8448, "Trampoline", m) >>

\* lldb_module.symbols, with what `target symbols add` added to the image
ModuleSymbols(m, added) ==
    ModuleTable(m) \o SelectSeq(added, LAMBDA s : s.module = m)

RECURSIVE TargetSymbols(_, _)
\* the symbols of all loaded images, in the order the engine finds them
TargetSymbols(mods, added) ==
    IF mods = <<>> THEN <<>>
    ELSE ModuleSymbols(Head(mods), added) \o TargetSymbols(Tail(mods), added)

Range(seq) == {seq[i] : i \in DOMAIN seq}

\* the lists of symbols the model follows: the global list and the lists callers own
Lists == {"global", "A", "B", "R"}
EmptyList == [i \in {} |-> 0]

InitSymbols(mods) ==
    /\ modules = mods
    /\ added_symbols = <<>>
    /\ _symbols = [l \in Lists |-> EmptyList]
    /\ _symbols_by_name = [l \in Lists |-> EmptyList]
    /\ _modules = {}
    /\ scans = [m \in Range(AllModules) |-> 0]
    /\ created = EmptyList
    /\ sym_last = [op |-> "init", list |-> None, other |-> None, key |-> Nothing,
                   resolved |-> Nothing, result |-> Nothing, raised |-> None,
                   scanned |-> <<>>]

InitSession ==
    /\ target_breakpoints = [i \in {} |-> 0]
    /\ next_bp_id = 1
    /\ _breakpoints = [i \in {} |-> 0]
    /\ breakpoints = [i \in {} |-> 0]
    /\ target_watchpoints = [i \in {} |-> 0]
    /\ next_wp_id = 1
    /\ _watchpoints = [i \in {} |-> 0]
    /\ _bp_frame = None
    /\ symbols_jar = [n \in {} |-> 0]
    /\ saved_state = Nothing
    /\ _symbols_loaded = FALSE
    /\ _dynamic_env_loaded = FALSE
    /\ is_running = <<>>
    /\ last = Op("init", 0, None, None, None, FALSE, None, {})
    /\ process_state = "stopped"
    /\ stop = NoStop
    /\ selected_frame = FrameNames[1]
    /\ is_async = TRUE
    /\ events = <<>>
    /\ stops = 0
    /\ last_state = "stopped"
    /\ pc = [t \in Threads |-> "idle"]
    /\ ctx = [t \in Threads |-> NoCall]
    /\ escaped = [t \in Threads |-> None]
    /\ options = NoOptions
    /\ name = None
    /\ log_message = NoLog

Init == InitSession /\ InitSymbols(AllModules)

Next ==
    \/ add
    \/ remove
    \/ clear
    \/ _dispatch_breakpoint_callback
    \/ EngineBreakpointCreate

Spec == Init /\ [][Next]_vars

\* breakpoints and their names
NextNames ==
    \/ EngineBreakpointCreate
    \/ remove
    \/ names_setter
    \/ get

SpecNames == Init /\ [][NextNames]_vars

\* breakpoints created through the list (without callback and condition) and outside of
\* it, looked up, enumerated and cleared
NextAdopt ==
    \/ EngineBreakpointCreate
    \/ add /\ last'.callback = None /\ last'.condition = None
    \/ get
    \/ iterate
    \/ clear

SpecAdopt == Init /\ [][NextAdopt]_vars

\* breakpoints that are hit, disabled and enabled again
NextEnabled ==
    \/ add
    \/ enabled_setter
    \/ _dispatch_breakpoint_callback

SpecEnabled == Init /\ [][NextEnabled]_vars

\* the older breakpoint API of HildaClient, on a target of its own
NextClient ==
    \/ bp
    \/ remove_hilda_breakpoint
    \/ remove_all_hilda_breakpoints
    \/ bp_callback_router

SpecClient == Init /\ [][NextClient]_vars

NextWp ==
    \/ wp_add
    \/ wp_remove
    \/ wp_clear
    \/ _dispatch_watchpoint_callback
    \/ EngineWatchpointCreate

SpecWp == Init /\ [][NextWp]_vars

\* ===================================================== dispatch, step by step
\* The engine calls the script callback of a hit breakpoint or watchpoint in
\* its own context ("engine"); LLDBListenerThread ("listener") calls the
\* watchpoint router itself.  The code takes no lock around either call.

\* an integer that ended up in HildaClient._bp_frame
IntAsFrame(i) == <<"int 1", "int 2", "int 3", "int 4", "int 5">>[i]

\* HildaClient.frame
CurrentFrame == IF _bp_frame # None THEN _bp_frame ELSE selected_frame

\* HildaClient.cont
Cont ==
    IF process_state = "running"
    THEN UNCHANGED procvars
    ELSE /\ is_async' = TRUE
         /\ process_state' = "running"
         /\ stop' = NoStop
         /\ events' = Append(events, "running")
         /\ UNCHANGED <<selected_frame, stops>>

\* cont() typed at the prompt
ReplCont ==
    /\ process_state = "stopped"
    /\ Cont
    /\ UNCHANGED <<bpvars, wpvars, _bp_frame, last, dvars, monvars, clientvars, symvars>>

\* the process hits an enabled breakpoint or watchpoint and stops
EngineStop ==
    /\ process_state = "running"
    /\ stops < MaxStops
    /\ \/ \E id \in DOMAIN target_breakpoints :
             /\ target_breakpoints[id].enabled
             /\ stop' = [reason |-> "breakpoint", id |-> id,
                         pending |-> target_breakpoints[id].wired # None]
       \/ \E id \in DOMAIN target_watchpoints :
             stop' = [reason |-> "watchpoint", id |-> id,
                      pending |-> target_watchpoints[id].wired]
    /\ process_state' = "stopped"
    /\ selected_frame' = FrameNames[1]
    /\ events' = Append(events, "stopped")
    /\ stops' = stops + 1
    /\ UNCHANGED <<bpvars, wpvars, _bp_frame, last, is_async, dvars, monvars, clientvars, symvars>>

\* _dispatch_breakpoint_callback / _dispatch_watchpoint_callback up to the try:
\* the id is read and the frame argument is published
RouterEnter(t, kind, id, frame) ==
    /\ _bp_frame' = frame
    /\ pc' = [pc EXCEPT ![t] = "lookup"]
    /\ ctx' = [ctx EXCEPT ![t] = [NoCall EXCEPT !.kind = kind, !.id = id, !.frame = frame]]

\* the engine runs the script callback of the breakpoint / watchpoint that was hit
EngineInvoke ==
    /\ stop.pending
    /\ pc["engine"] = "idle"
    /\ RouterEnter("engine", stop.reason, stop.id, FrameNames[1])
    /\ stop' = [stop EXCEPT !.pending = FALSE]
    /\ UNCHANGED <<bpvars, wpvars, last, process_state, selected_frame, is_async,
                   events, stops, last_state, escaped, monvars, clientvars, symvars>>

\* callback = self[bp_id].callback
RouterLookup(t) ==
    /\ pc[t] = "lookup"
    /\ LET c == ctx[t]
           isbp == c.kind = "breakpoint"
           valid == IF isbp THEN c.id \in DOMAIN target_breakpoints
                    ELSE c.id \in DOMAIN target_watchpoints
           bpbook == BpGetTable(target_breakpoints, _breakpoints, c.id)
           wpbook == WpGetTable(target_watchpoints, _watchpoints, c.id)
           callback == IF ~valid THEN None
                       ELSE IF isbp THEN bpbook[c.id].callback ELSE wpbook[c.id].callback
       IN  /\ _breakpoints' = IF isbp THEN bpbook ELSE _breakpoints
           /\ _watchpoints' = IF isbp THEN _watchpoints ELSE wpbook
           /\ ctx' = [ctx EXCEPT ![t].callback = callback,
                                 ![t].exc = IF valid THEN None ELSE "KeyError"]
           /\ pc' = [pc EXCEPT ![t] = IF callback = None THEN "finally" ELSE "callback"]
    /\ UNCHANGED <<target_breakpoints, next_bp_id, breakpoints, target_watchpoints,
                   next_wp_id, _bp_frame, last, procvars, last_state, escaped, monvars, clientvars, symvars>>

\* HildaClient.finish called by the callback of thread t
FinishKeepsFrame(t) ==
    /\ _bp_frame' = _bp_frame
    /\ selected_frame' = IF process_state = "stopped" /\ IsFrame(CurrentFrame)
                         THEN CallerOf(CurrentFrame) ELSE selected_frame
    /\ stop' = stop
    /\ ctx' = [ctx EXCEPT ![t].ops = @ + 1, ![t].did = "finish", ![t].finished = TRUE]
    /\ UNCHANGED <<pc, process_state, is_async, events, stops>>

Finish(t) ==
    IF ~IsFrame(CurrentFrame)
    THEN \* self.thread raises: the published value is no frame
         /\ ctx' = [ctx EXCEPT ![t].exc = "AttributeError"]
         /\ pc' = [pc EXCEPT ![t] = "finally"]
         /\ UNCHANGED <<_bp_frame, procvars>>
    ELSE /\ _bp_frame' = None
         /\ IF process_state = "stopped"
            THEN /\ selected_frame' = CallerOf(CurrentFrame)
                 /\ stop' = [reason |-> "plan", id |-> 0, pending |-> FALSE]
            ELSE UNCHANGED <<selected_frame, stop>>
         /\ ctx' = [ctx EXCEPT ![t].ops = @ + 1, ![t].did = "finish", ![t].finished = TRUE]
         /\ UNCHANGED <<pc, process_state, is_async, events, stops>>

\* one step of the user callback: it calls finish(), calls cont(), raises or returns
CallbackStep(t) ==
    /\ pc[t] = "callback"
    /\ \/ /\ ctx[t].ops < MaxOps
          /\ Finish(t)
       \/ /\ ctx[t].ops < MaxOps
          /\ Cont
          /\ ctx' = [ctx EXCEPT ![t].ops = @ + 1, ![t].did = "cont"]
          /\ UNCHANGED <<_bp_frame, pc>>
       \/ /\ ctx' = [ctx EXCEPT ![t].exc = "CallbackError"]
          /\ pc' = [pc EXCEPT ![t] = "finally"]
          /\ UNCHANGED <<_bp_frame, procvars>>
       \/ /\ pc' = [pc EXCEPT ![t] = "finally"]
          /\ UNCHANGED <<_bp_frame, procvars, ctx>>
    /\ UNCHANGED <<bpvars, wpvars, last, last_state, escaped, monvars, clientvars, symvars>>

\* the finally of the router; what was raised inside leaves the call
RouterFinallyOnSuccessOnly(t) ==
    /\ pc[t] = "finally"
    /\ _bp_frame' = IF ctx[t].exc = None THEN None ELSE _bp_frame
    /\ escaped' = [escaped EXCEPT ![t] = None]
    /\ pc' = [pc EXCEPT ![t] = "idle"]
    /\ ctx' = [ctx EXCEPT ![t] = NoCall]
    /\ last_state' = last_state

RouterFinally(t) ==
    /\ pc[t] = "finally"
    /\ _bp_frame' = None
    /\ escaped' = [escaped EXCEPT ![t] = ctx[t].exc]
    /\ pc' = [pc EXCEPT ![t] =
                 IF t = "listener" /\ ctx[t].exc # None THEN "dead" ELSE "idle"]
    /\ ctx' = [ctx EXCEPT ![t] = NoCall]
    /\ last_state' = IF t = "listener" /\ ctx[t].exc = None THEN "stopped" ELSE last_state

RouterStep ==
    \E t \in Threads :
        \/ RouterLookup(t)
        \/ CallbackStep(t)
        \/ /\ RouterFinally(t)
           /\ UNCHANGED <<bpvars, wpvars, last, procvars, monvars, clientvars, symvars>>

\* LLDBListenerThread.run: one event taken from the listener;
\* _process_potential_watchpoint_event calls the router as
\* _dispatch_watchpoint_callback(watchpoint_id, thread, frame)
ListenerStep ==
    /\ pc["listener"] = "idle"
    /\ events # <<>>
    /\ events' = Tail(events)
    /\ IF /\ Head(events) = "stopped" /\ last_state = "running"
          /\ process_state = "stopped" /\ stop.reason = "watchpoint"
       \* 4660 is SBThread.GetID() of the stopped thread, never the id of a watchpoint
       THEN /\ RouterEnter("listener", "watchpoint", 4660, IntAsFrame(stop.id))
            /\ UNCHANGED last_state
       ELSE /\ last_state' = Head(events)
            /\ UNCHANGED <<_bp_frame, pc, ctx>>
    /\ UNCHANGED <<bpvars, wpvars, last, process_state, stop, selected_frame, is_async,
                   stops, escaped, monvars, clientvars, symvars>>

\* one breakpoint and one watchpoint have been added, the process is stopped
InitDispatch ==
    /\ \E callback \in Callbacks :
          /\ target_breakpoints = With([i \in {} |-> 0], 1,
                 [loc |-> IntWhere, condition |-> None, names |-> {}, enabled |-> TRUE, wired |-> "list"])
          /\ _breakpoints = With([i \in {} |-> 0], 1,
                 [where |-> IntWhere, callback |-> callback, guarded |-> FALSE])
    /\ next_bp_id = 2
    /\ breakpoints = [i \in {} |-> 0]
    /\ \E callback \in OptCallbacks :
          /\ target_watchpoints = With([i \in {} |-> 0], 1,
                 [address |-> "0x3000", read |-> TRUE, write |-> TRUE,
                  condition |-> None, wired |-> TRUE])
          /\ _watchpoints = With([i \in {} |-> 0], 1,
                 [where |-> "0x3000", callback |-> callback])
    /\ next_wp_id = 2
    /\ _bp_frame = None
    /\ symbols_jar = [n \in {} |-> 0]
    /\ saved_state = Nothing
    /\ _symbols_loaded = FALSE
    /\ _dynamic_env_loaded = FALSE
    /\ is_running = <<>>
    /\ last = Op("init", 0, None, None, None, FALSE, None, {})
    /\ process_state = "stopped"
    /\ stop = NoStop
    /\ selected_frame = FrameNames[1]
    /\ is_async = TRUE
    /\ events = <<>>
    /\ stops = 0
    /\ last_state = "stopped"
    /\ pc = [t \in Threads |-> "idle"]
    /\ ctx = [t \in Threads |-> NoCall]
    /\ escaped = [t \in Threads |-> None]
    /\ options = NoOptions
    /\ name = None
    /\ log_message = NoLog
    /\ InitSymbols(AllModules)

\* breakpoints.remove / watchpoints.remove typed at the prompt while hits are
\* being delivered
ReplRemove ==
    /\ \/ \E id \in DOMAIN target_breakpoints :
             LET r == BpRemove(target_breakpoints, _breakpoints, id, TRUE)
             IN  /\ target_breakpoints' = r[1]
                 /\ _breakpoints' = r[2]
                 /\ UNCHANGED <<target_watchpoints, _watchpoints>>
       \/ \E id \in DOMAIN target_watchpoints :
             LET r == WpRemove(target_watchpoints, _watchpoints, id)
             IN  /\ target_watchpoints' = r[1]
                 /\ _watchpoints' = r[2]
                 /\ UNCHANGED <<target_breakpoints, _breakpoints>>
    /\ UNCHANGED <<next_bp_id, breakpoints, next_wp_id, _bp_frame, last, procvars, dvars, monvars, clientvars, symvars>>

\* hits delivered by the engine's callbacks only
NextDispatch ==
    \/ ReplCont
    \/ EngineStop
    \/ EngineInvoke
    \/ RouterStep
    \/ ReplRemove

SpecDispatch == InitDispatch /\ [][NextDispatch]_vars

\* the same with the listener thread running
NextListener ==
    \/ ReplCont
    \/ EngineStop
    \/ EngineInvoke
    \/ RouterStep
    \/ ListenerStep
    \/ ReplRemove

SpecListener == InitDispatch /\ [][NextListener]_vars

\* ====================================================== monitor breakpoints
\* str(symbol.lldb_address) / str(symbol.lldb_symbol) of the symbol at the hit PC
ResolvedName == "isdigit"

\* the frame after hilda.finish() was called k times from frame f
RECURSIVE Unwind(_, _)
Unwind(f, k) == IF k = 0 THEN f ELSE Unwind(CallerOf(f), k - 1)

\* the name the log line starts with
PrintedName(o, nm) ==
    IF o.impl = "list"
    THEN (IF nm # None THEN nm ELSE ResolvedName)
    ELSE (IF o.name # None THEN o.name ELSE ResolvedName)

\* `name` after `for name, fmt in regs.items()` and `for name, fmt in expr.items()`;
\* BreakpointList.add_monitor.callback declares it nonlocal, HildaClient.monitor.callback
\* assigns a local
NameAfterLoops(o, nm) ==
    IF o.impl # "list" THEN nm
    ELSE IF o.expr # <<>> THEN o.expr[Len(o.expr)]
    ELSE IF o.regs # <<>> THEN o.regs[Len(o.regs)]
    ELSE nm

\* the calls of hilda.finish() up to the backtrace, and up to reading $arg1
FinishesAtBt(o) == (IF o.force_return # None THEN 1 ELSE 0) + (IF o.bt THEN 1 ELSE 0)

\* one step per key of a dict, in the order of the dict
Steps(kind, keys) == [i \in 1..Len(keys) |-> <<kind, keys[i]>>]

\* what the monitor callback does, in the order in which it does it
MonitorTraceContFirst(o) ==
    Steps("format", o.regs) \o Steps("format", o.expr)
    \o (IF o.stop THEN <<>> ELSE << <<"cont", None>> >>)
    \o << <<"log_info", None>> >>
    \o Steps("cmd", o.cmd)

MonitorTrace(o) ==
    Steps("format", o.regs) \o Steps("format", o.expr)
    \o (IF o.force_return # None THEN << <<"force_return", o.force_return>> >> ELSE <<>>)
    \o (IF o.bt THEN << <<"finish", None>>, <<"bt", None>> >> ELSE <<>>)
    \o (IF o.retval # None THEN << <<"finish", None>>, <<"evaluate", "$arg1">> >> ELSE <<>>)
    \o << <<"log_info", None>> >>
    \o Steps("cmd", o.cmd)
    \o (IF o.stop THEN <<>> ELSE << <<"cont", None>> >>)

\* the monitor callback, from the router's entry to the end of its finally
MonitorHit ==
    /\ stop.pending
    /\ stop.reason = "breakpoint"
    /\ pc["engine"] = "idle"
    /\ LET frame == FrameNames[1]
           n == FinishesAtBt(options) + (IF options.retval # None THEN 1 ELSE 0)
       IN  /\ log_message' =
                  [hit |-> log_message.hit + 1,
                   printed_name |-> PrintedName(options, name),
                   finishes |-> n,
                   bt_frame |-> IF options.bt THEN Unwind(frame, FinishesAtBt(options))
                                ELSE None,
                   retval_frame |-> IF options.retval # None THEN Unwind(frame, n)
                                    ELSE None,
                   entries |-> options.regs \o options.expr,
                   trace |-> MonitorTrace(options)]
           /\ name' = NameAfterLoops(options, name)
           /\ selected_frame' = Unwind(frame, n)
           \* whether the callback has called hilda.cont()
           /\ IF \A i \in DOMAIN MonitorTrace(options) : MonitorTrace(options)[i][1] # "cont"
              THEN /\ stop' = IF n > 0 THEN [reason |-> "plan", id |-> 0, pending |-> FALSE]
                              ELSE [stop EXCEPT !.pending = FALSE]
                   /\ UNCHANGED <<process_state, events>>
              ELSE /\ stop' = NoStop
                   /\ process_state' = "running"
                   /\ events' = Append(events, "running")
    /\ _bp_frame' = None
    /\ _breakpoints' = IF options.impl = "list"
                       THEN BpGetTable(target_breakpoints, _breakpoints, stop.id)
                       ELSE _breakpoints
    /\ UNCHANGED <<target_breakpoints, next_bp_id, breakpoints, wpvars, last, is_async,
                   stops, dvars, options, clientvars, symvars>>

\* add_monitor(0x2000, ...) or monitor(0x2000, ...) has been called, the process is stopped
InitMonitor ==
    /\ \E impl \in {"list", "client"}, nm \in {None, "my_name"},
          regs \in {<<>>, <<"x0">>, <<"x0", "x1">>}, expr \in {<<>>, <<"$arg1">>},
          force_return \in {None, "1"}, bt \in BOOLEAN, retval \in {None, "x"},
          cmd \in {<<>>, <<"bt", "register read">>}, st \in BOOLEAN :
          /\ options = [impl |-> impl, name |-> nm, regs |-> regs, expr |-> expr,
                        force_return |-> force_return, bt |-> bt, retval |-> retval,
                        cmd |-> cmd, stop |-> st]
          /\ name = nm
          /\ target_breakpoints = With([i \in {} |-> 0], 1,
                 [loc |-> IntWhere, condition |-> None, names |-> {}, enabled |-> TRUE, wired |-> impl])
          /\ _breakpoints = IF impl = "list"
                            THEN With([i \in {} |-> 0], 1,
                                 [where |-> IntWhere, callback |-> "monitor", guarded |-> FALSE])
                            ELSE [i \in {} |-> 0]
          /\ breakpoints = IF impl = "client"
                           THEN With([i \in {} |-> 0], 1,
                                [address |-> IntWhere, forced |-> FALSE, callback |-> "monitor"])
                           ELSE [i \in {} |-> 0]
    /\ next_bp_id = 2
    /\ target_watchpoints = [i \in {} |-> 0]
    /\ next_wp_id = 1
    /\ _watchpoints = [i \in {} |-> 0]
    /\ _bp_frame = None
    /\ symbols_jar = [n \in {} |-> 0]
    /\ saved_state = Nothing
    /\ _symbols_loaded = FALSE
    /\ _dynamic_env_loaded = FALSE
    /\ is_running = <<>>
    /\ last = Op("init", 0, None, None, None, FALSE, None, {})
    /\ process_state = "stopped"
    /\ stop = NoStop
    /\ selected_frame = FrameNames[1]
    /\ is_async = TRUE
    /\ events = <<>>
    /\ stops = 0
    /\ last_state = "stopped"
    /\ pc = [t \in Threads |-> "idle"]
    /\ ctx = [t \in Threads |-> NoCall]
    /\ escaped = [t \in Threads |-> None]
    /\ log_message = NoLog
    /\ InitSymbols(AllModules)

NextMonitor ==
    \/ ReplCont
    \/ EngineStop
    \/ MonitorHit

SpecMonitor == InitMonitor /\ [][NextMonitor]_vars

\* ================================================================ SymbolList
\* the state of all lists, as the operators below pass it along
SymState == [symbols |-> _symbols, by_name |-> _symbols_by_name, created |-> created]

\* re.match(r'^[a-zA-Z0-9_]+$', name), over the names of the model
IsPlainName(n) == n \in {"isdigit", "dup", "tramp", "injected", "log_debug", "nosuch"}

\* a Symbol object: its id (lldb_name, int(self)) and which object it is
SymbolObject(sym_id, serial) == [id |-> sym_id, serial |-> serial]
IsRegular(symbol) == symbol.id[1] # None
CountOf(f, i) == IF i \in DOMAIN f THEN f[i] ELSE 0

\* the keys get, [] and `in` take
Key(kind, n, address, type, m, serial) ==
    [kind |-> kind, name |-> n, address |-> address, type |-> type, module |-> m,
     serial |-> serial]
IntKey(address) == Key("int", None, address, None, None, 0)
StrKey(n) == Key("str", n, 0, None, None, 0)
IdKey(n, address) == Key("id", n, address, None, None, 0)
\* the Symbol object a key is
KeySymbol(key) == SymbolObject(<<key.name, key.address>>, key.serial)

\* _get_lldb_symbol, the lldb.SBSymbol branch
ConvertSymbol(lldb_symbol) ==
    IF lldb_symbol.name = "<redacted>" THEN Nothing
    ELSE IF lldb_symbol.address = 0 - 1 THEN Nothing
    ELSE IF lldb_symbol.type \notin {"Code", "Runtime", "Data", "ObjCMetaClass"} THEN Nothing
    ELSE Some(lldb_symbol)

\* _get_lldb_symbol_from_name: `address` is Nothing or Some(address)
_get_lldb_symbol_from_name(T, n, address) ==
    LET found == SelectSeq(T, LAMBDA s : s.name = n)
        at == IF address = Nothing THEN found
              ELSE SelectSeq(found, LAMBDA s : s.address = address[1])
        symbols == SelectSeq(at, LAMBDA s : ConvertSymbol(s) # Nothing)
    IN  IF symbols = <<>> THEN Nothing ELSE Some(symbols[1])

\* a mutation of ResolveLoadAddress: the symbol that holds the address is the answer
ResolveLoadAddressInside(T, address) ==
    LET containing == {s \in Range(T) :
                          s.address <= address /\ address < s.address + SymbolSize}
    IN  IF containing = {} THEN {Nothing} ELSE {ConvertSymbol(s) : s \in containing}
\* _get_lldb_symbol, the int and lldb.SBAddress branches: every symbol the engine may
\* answer ResolveSymbolContextForAddress with
ResolveLoadAddress(T, address) ==
    LET containing == {s \in Range(T) :
                          s.address <= address /\ address < s.address + SymbolSize}
    IN  IF containing = {} THEN {Nothing}
        ELSE {IF s.address # address THEN Nothing ELSE ConvertSymbol(s) : s \in containing}

\* _get_lldb_symbol: the set of its possible results, Nothing or Some(engine symbol)
_get_lldb_symbol(T, key) ==
    CASE key.kind = "int" -> ResolveLoadAddress(T, key.address)
      [] key.kind = "str" -> {_get_lldb_symbol_from_name(T, key.name, Nothing)}
      [] key.kind = "SBSymbol" -> {ConvertSymbol(EngineSymbol(key.name, key.address, key.type, key.module))}
      [] key.kind \in {"id", "Symbol"} ->
            IF key.name = None THEN ResolveLoadAddress(T, key.address)
            ELSE {_get_lldb_symbol_from_name(T, key.name, Some(key.address))}

\* a list of sym_ids whose order nothing reads: sym_id -> number of occurrences
RECURSIVE IdsLen(_)
IdsLen(ids) ==
    IF DOMAIN ids = {} THEN 0
    ELSE LET i == CHOOSE j \in DOMAIN ids : TRUE IN ids[i] + IdsLen(Without(ids, {i}))

\* SymbolList._add
SymListAdd(S, l, sym_id, symbol) ==
    LET n == sym_id[1]
        names == S.by_name[l]
    IN  [S EXCEPT !.symbols[l] = With(@, sym_id, symbol),
                  !.by_name[l] =
                      IF n # None /\ IsPlainName(n)
                      THEN LET ids == IF n \in DOMAIN names THEN names[n] ELSE EmptyList
                           IN  With(@, n, With(ids, sym_id, CountOf(ids, sym_id) + 1))
                      ELSE @]

\* Symbol.create: a new object each time
SymbolCreate(S, sym_id) ==
    [S |-> [S EXCEPT !.created = With(@, sym_id, CountOf(@, sym_id) + 1)],
     symbol |-> SymbolObject(sym_id, CountOf(S.created, sym_id) + 1)]

\* a mutation of SymGet: the global list makes a new Symbol on every lookup
SymGetAlwaysCreates(S, l, resolved) ==
    IF resolved = Nothing THEN [S |-> S, result |-> Nothing]
    ELSE LET sym_id == <<resolved[1].name, resolved[1].address>>
             made == SymbolCreate(S, sym_id)
         IN  IF l = "global"
             THEN [S |-> SymListAdd(made.S, l, sym_id, made.symbol),
                   result |-> Some(made.symbol)]
             ELSE [S |-> S,
                   result |-> IF sym_id \in DOMAIN S.symbols[l]
                              THEN Some(S.symbols[l][sym_id]) ELSE Nothing]
\* SymbolList.get, after _get_lldb_symbol answered `resolved`
SymGet(S, l, resolved) ==
    IF resolved = Nothing THEN [S |-> S, result |-> Nothing]
    ELSE LET sym_id == <<resolved[1].name, resolved[1].address>>
             made == SymbolCreate(S, sym_id)
         IN  IF sym_id \notin DOMAIN S.symbols[l] /\ l = "global"
             THEN [S |-> SymListAdd(made.S, l, sym_id, made.symbol),
                   result |-> Some(made.symbol)]
             ELSE [S |-> S,
                   result |-> IF sym_id \in DOMAIN S.symbols[l]
                              THEN Some(S.symbols[l][sym_id]) ELSE Nothing]

\* `substring in lldb_module.file.basename`, over the substrings "", "lib", "system", "objc"
Contains(substring, basename) ==
    \/ substring \in {"", "lib"}
    \/ substring = "system" /\ basename = "libsystem_c"
    \/ substring = "objc" /\ basename = "libobjc"

\* lldb_address.module of a load address, "" when no loaded image holds it
ModuleOf(mods, address) ==
    LET Base(m) == IF m = AllModules[1] THEN 4096 ELSE 8192
        holding == {m \in Range(mods) : Base(m) <= address /\ address < Base(m) + 4096}
    IN  IF holding = {} THEN "" ELSE CHOOSE m \in holding : TRUE

RECURSIVE GetAll(_, _)
\* for lldb_symbol in lldb_module.symbols: self.get(lldb_symbol)
GetAll(S, lldb_symbols) ==
    IF lldb_symbols = <<>> THEN S
    ELSE GetAll(SymGet(S, "global", ConvertSymbol(Head(lldb_symbols))).S, Tail(lldb_symbols))

\* a mutation of SymPopulate: every loaded module is scanned on every enumeration
SymPopulateRescans(S, l, mods, added, cached, module_uuid_filter) ==
    IF l # "global" THEN [S |-> S, cached |-> cached, scanned |-> <<>>]
    ELSE [S |-> GetAll(S, TargetSymbols(mods, added)),
          cached |-> cached \cup Range(mods), scanned |-> mods]
\* SymbolList._populate_cache
SymPopulate(S, l, mods, added, cached, module_uuid_filter) ==
    LET modules_not_cached ==
            IF module_uuid_filter # None
            THEN SelectSeq(mods, LAMBDA m : m = module_uuid_filter)
            ELSE SelectSeq(mods, LAMBDA m : m \notin cached)
    IN  IF l # "global" THEN [S |-> S, cached |-> cached, scanned |-> <<>>]
        ELSE [S |-> GetAll(S, TargetSymbols(modules_not_cached, added)),
              cached |-> cached \cup Range(modules_not_cached),
              scanned |-> modules_not_cached]

\* a mutation of SymAddExisting: a list a caller owns gets a copy of the Symbol
SymAddCopy(S, l, symbol) ==
    SymListAdd(S, l, symbol.id,
               IF l = "global" THEN symbol ELSE SymbolObject(symbol.id, symbol.serial + 1))
\* SymbolList.add, its first branch: a regular Symbol is put into the list as it is
SymAddExisting(S, l, symbol) == SymListAdd(S, l, symbol.id, symbol)

RECURSIVE AddAll(_, _, _)
\* for v in ...: retval.add(v)
AddAll(S, l, symbols) ==
    IF symbols = <<>> THEN S
    ELSE AddAll(SymAddExisting(S, l, Head(symbols)), l, Tail(symbols))

RECURSIVE Values(_, _)
\* SymbolList.values: the Symbols of a list, one after the other
Values(table, ids) ==
    IF ids = {} THEN <<>>
    ELSE LET i == CHOOSE j \in ids : TRUE
         IN  <<table[i]>> \o Values(table, ids \ {i})

\* SymbolList(self._hilda): a new, empty list in place of the result list
NewList(S, l) == [S EXCEPT !.symbols[l] = EmptyList, !.by_name[l] = EmptyList]

AddScans(counts, scanned) ==
    [m \in DOMAIN counts |->
        counts[m] + Cardinality({i \in DOMAIN scanned : scanned[i] = m})]

\* the caps that keep the counters of the model finite
Bounded(S, counts) ==
    /\ \A i \in DOMAIN S.created : S.created[i] <= MaxCreated
    /\ \A l \in Lists : \A n \in DOMAIN S.by_name[l] : IdsLen(S.by_name[l][n]) <= MaxNameIds
    /\ \A m \in DOMAIN counts : counts[m] <= MaxScans

\* a mutation of SymAdd: a new name is added without asking the module for the name
SymAddUnchecked(S, l, value, symbol_name, hints, resolved, mods, added) ==
    LET address == value.address
        added1 == Append(added, EngineSymbol(symbol_name, address, "Code",
                                             ModuleOf(mods, address)))
        got == SymGet(S, "global",
                      _get_lldb_symbol_from_name(TargetSymbols(mods, added1), symbol_name,
                                                 Some(address)))
    IN  IF symbol_name = None \/ value.kind # "int" \/ resolved # Nothing
        THEN [S |-> S, added |-> added, result |-> Nothing, raised |-> "Exception"]
        ELSE [S |-> SymAddExisting(got.S, l, got.result[1]), added |-> added1,
              result |-> got.result, raised |-> None]
\* a mutation of SymAdd: an address no symbol starts at is cached like a regular symbol
SymAddCachesAnonymous(S, l, value, symbol_name, hints, resolved, mods, added) ==
    LET found == SymGet(S, "global", resolved)
        sym_id == <<None, value.address>>
        anonymous == IF sym_id \in DOMAIN S.symbols[l]
                     THEN [S |-> S, symbol |-> S.symbols[l][sym_id]]
                     ELSE SymbolCreate(S, sym_id)
    IN  IF found.result # Nothing
        THEN [S |-> SymAddExisting(found.S, l, found.result[1]), added |-> added,
              result |-> found.result, raised |-> None]
        ELSE [S |-> SymListAdd(anonymous.S, l, sym_id, anonymous.symbol), added |-> added,
              result |-> Some(anonymous.symbol), raised |-> None]
\* SymbolList.add; `hints` is (symbol_type, symbol_size) != (None, None), `resolved` is
\* what _get_lldb_symbol answers the global list's lookup with
SymAdd(S, l, value, symbol_name, hints, resolved, mods, added) ==
    LET regular == value.kind = "Symbol" /\ IsRegular(KeySymbol(value))
        address == value.address
        Out(S1, added1, result, raised) ==
            [S |-> S1, added |-> added1, result |-> result, raised |-> raised]
        found == SymGet(S, "global", resolved)
        anonymous == SymbolCreate(found.S, <<None, address>>)
        \* _add_lldb_symbol
        lldb_module == ModuleOf(mods, address)
        added1 == Append(added, EngineSymbol(symbol_name, address, "Code", lldb_module))
        got == SymGet(S, "global",
                      _get_lldb_symbol_from_name(TargetSymbols(mods, added1), symbol_name,
                                                 Some(address)))
    IN  IF regular /\ ~hints /\ (symbol_name = None \/ symbol_name = value.name)
        THEN Out(SymAddExisting(S, l, KeySymbol(value)), added, Some(KeySymbol(value)), None)
        ELSE IF regular THEN Out(S, added, Nothing, "ValueError")
        ELSE IF symbol_name = None /\ hints THEN Out(S, added, Nothing, "ValueError")
        ELSE IF found.result # Nothing
        THEN IF hints THEN Out(found.S, added, Nothing, "ValueError")
             ELSE Out(SymAddExisting(found.S, l, found.result[1]), added, found.result, None)
        ELSE IF symbol_name = None THEN Out(anonymous.S, added, Some(anonymous.symbol), None)
        ELSE IF \/ lldb_module = ""
                \/ \E s \in Range(ModuleSymbols(lldb_module, added)) : s.name = symbol_name
        THEN Out(S, added, Nothing, "Exception")
        ELSE Out(SymAddExisting(got.S, l, got.result[1]), added1, got.result, None)

\* a mutation of SymListRemove: the symbol is taken out of the global list as well
SymListRemoveEverywhere(S, l, sym_id) ==
    [S |-> [S EXCEPT !.symbols = [k \in Lists |->
                         IF k \in {l, "global"} THEN Without(@[k], {sym_id}) ELSE @[k]]],
     raised |-> None]
\* SymbolList._remove
SymListRemove(S, l, sym_id) ==
    LET n == sym_id[1]
        S1 == [S EXCEPT !.symbols[l] = Without(@, {sym_id})]
        names == S.by_name[l]
    IN  IF n = None \/ ~IsPlainName(n) THEN [S |-> S1, raised |-> None]
        ELSE IF n \notin DOMAIN names THEN [S |-> S1, raised |-> "KeyError"]
        ELSE IF IdsLen(names[n]) = 1
        THEN IF sym_id \in DOMAIN names[n]
             THEN [S |-> [S1 EXCEPT !.by_name[l] = With(@, n, EmptyList)], raised |-> None]
             ELSE [S |-> S1, raised |-> "ValueError"]
        ELSE [S |-> [S1 EXCEPT !.by_name[l] = Without(@, {n})], raised |-> None]

\* SymbolList.remove
SymRemove(S, l, resolved) ==
    LET found == SymGet(S, l, resolved)
    IN  IF l = "global" THEN [S |-> S, raised |-> "Exception"]
        ELSE IF found.result = Nothing THEN [S |-> found.S, raised |-> "SymbolAbsentError"]
        ELSE SymListRemove(found.S, l, found.result[1].id)

\* re.fullmatch(r'x(?:0x)?([0-9a-fA-F]{6,16})', attribute_name) and int(match[1], 16),
\* over the attribute names of the model
HexLiteral(attribute_name) ==
    CASE attribute_name = "x001000" -> Some(4096)
      [] attribute_name = "x0x009000" -> Some(36864)
      [] OTHER -> Nothing
AttributeKey(attribute_name) ==
    IF HexLiteral(attribute_name) # Nothing THEN IntKey(HexLiteral(attribute_name)[1])
    ELSE StrKey(attribute_name)

\* a mutation of SymGetAttr: every attribute name is looked up as a name
SymGetAttrByName(S, l, attribute_name, resolved, mods, added) ==
    LET found == SymGet(S, l, _get_lldb_symbol_from_name(TargetSymbols(mods, added),
                                                         attribute_name, Nothing))
    IN  [S |-> found.S, added |-> added, result |-> found.result,
         raised |-> IF found.result = Nothing THEN "SymbolAbsentError" ELSE None]
\* SymbolList.__getattr__
SymGetAttr(S, l, attribute_name, resolved, mods, added) ==
    LET found == SymGet(S, l, resolved)
    IN  IF HexLiteral(attribute_name) # Nothing
        THEN SymAdd(S, l, AttributeKey(attribute_name), None, FALSE, resolved, mods, added)
        ELSE [S |-> found.S, added |-> added, result |-> found.result,
              raised |-> IF found.result = Nothing THEN "SymbolAbsentError" ELSE None]

\* SymbolList.force_refresh, the modules its loop does not skip; `module_range` is
\* Nothing or Some(<<start, end>>)
RefreshModules(mods, module_range, module_filename_filter) ==
    LET Chosen(m) == \E i \in DOMAIN mods :
                        /\ mods[i] = m
                        /\ Contains(module_filename_filter, m)
                        /\ \/ module_range = Nothing
                           \/ ~(i - 1 < module_range[1][1] \/ i - 1 > module_range[1][2])
    IN  SelectSeq(mods, Chosen)

\* SymbolList.force_refresh
SymForceRefresh(S, l, module_range, module_filename_filter, resolved, mods, added) ==
    LET log_debug == SymGetAttr(S, l, "log_debug", resolved, mods, added)
        scanned == RefreshModules(mods, module_range, module_filename_filter)
    IN  IF log_debug.raised # None
        THEN [S |-> log_debug.S, raised |-> log_debug.raised, scanned |-> <<>>]
        ELSE IF l # "global" THEN [S |-> log_debug.S, raised |-> None, scanned |-> <<>>]
        ELSE [S |-> GetAll(log_debug.S, TargetSymbols(scanned, added)), raised |-> None,
              scanned |-> scanned]

\* a mutation of SymFilterByModule: the module of a symbol is not looked at
SymFilterByModuleAll(S, l, substring, mods, added) ==
    LET S1 == IF l = "global" THEN GetAll(S, TargetSymbols(mods, added)) ELSE S
    IN  [S |-> AddAll(NewList(S1, "R"), "R", Values(S1.symbols[l], DOMAIN S1.symbols[l])),
         scanned |-> IF l = "global" THEN SelectSeq(mods, LAMBDA m : Contains(substring, m))
                     ELSE <<>>]
\* SymbolList.filter_by_module, its result in the list "R"
SymFilterByModule(S, l, substring, mods, added) ==
    LET matching == SelectSeq(mods, LAMBDA m : Contains(substring, m))
        lldb_symbols == TargetSymbols(matching, added)
        kept == SelectSeq(lldb_symbols, LAMBDA s : ConvertSymbol(s) # Nothing)
        S1 == IF l = "global" THEN GetAll(S, lldb_symbols) ELSE S
        optimized_iter ==
            IF l = "global"
            THEN [i \in DOMAIN kept |-> S1.symbols[l][<<kept[i].name, kept[i].address>>]]
            ELSE Values(S.symbols[l], DOMAIN S.symbols[l])
        wanted == SelectSeq(optimized_iter, LAMBDA v : Contains(substring, ModuleOf(mods, v.id[2])))
    IN  [S |-> AddAll(NewList(S1, "R"), "R", wanted),
         scanned |-> IF l = "global" THEN matching ELSE <<>>]

\* a mutation of SymFilter: the symbols that do not match are dropped from the receiver
SymFilterInPlace(S, l, how, mods, added, cached) ==
    [S |-> AddAll(NewList([S EXCEPT !.symbols[l] = EmptyList], "R"), "R", <<>>),
     cached |-> cached, scanned |-> <<>>]
\* SymbolList.filter_symbol_type (`how` is the type), filter_startswith('is'),
\* filter_endswith('digit') and filter_name_contains('dig'), the result in the list "R":
\* `for v in self.values()` populates the cache, Keep is the test the loop makes
SymFilter(S, l, how, mods, added, cached) ==
    LET Keep(v) ==
            CASE how = "filter_startswith" -> v.id[1] \in {"isdigit", "isdigit$UNIX2003"}
              [] how = "filter_endswith" -> v.id[1] = "isdigit"
              [] how = "filter_name_contains" -> v.id[1] \in {"isdigit", "isdigit$UNIX2003"}
              [] OTHER -> \E s \in Range(TargetSymbols(mods, added)) :
                             s.name = v.id[1] /\ s.address = v.id[2] /\ s.type = how
        populated == SymPopulate(S, l, mods, added, cached, None)
        values == Values(populated.S.symbols[l], DOMAIN populated.S.symbols[l])
    IN  [S |-> AddAll(NewList(populated.S, "R"), "R", SelectSeq(values, Keep)),
         cached |-> populated.cached, scanned |-> populated.scanned]

\* a mutation of SymUnion: the members are copied into new Symbol objects
SymUnionCopies(S, a, b) ==
    LET Copy(v) == SymbolObject(v.id, v.serial + 1)
        values == Values(S.symbols[b], DOMAIN S.symbols[b])
                  \o Values(S.symbols[a], DOMAIN S.symbols[a])
    IN  AddAll(NewList(S, "R"), "R", [i \in DOMAIN values |-> Copy(values[i])])
\* SymbolList.__add__, its result in the list "R"
SymUnion(S, a, b) ==
    AddAll(AddAll(NewList(S, "R"), "R", Values(S.symbols[b], DOMAIN S.symbols[b])),
           "R", Values(S.symbols[a], DOMAIN S.symbols[a]))

\* SymbolList.__sub__, its result in the list "R"
SymDifference(S, a, b, T) ==
    LET In(v) == SymGet(S, b, _get_lldb_symbol_from_name(T, v.id[1], Some(v.id[2]))).result
                     # Nothing
        values == Values(S.symbols[a], DOMAIN S.symbols[a])
    IN  AddAll(NewList(S, "R"), "R", SelectSeq(values, LAMBDA v : ~In(v)))

SymOp(op, l, other, key, resolved, result, raised, scanned) ==
    [op |-> op, list |-> l, other |-> other, key |-> key,
     resolved |-> IF resolved = Nothing THEN Nothing
                  ELSE Some(<<resolved[1].name, resolved[1].address>>),
     result |-> result, raised |-> raised, scanned |-> scanned]

SetSymState(S) ==
    /\ _symbols' = S.symbols
    /\ _symbols_by_name' = S.by_name
    /\ created' = S.created

othervars == <<bpvars, wpvars, _bp_frame, last, procvars, dvars, monvars, clientvars>>

Target == TargetSymbols(modules, added_symbols)

\* the Symbol a caller holds: the one returned last
LastSymbol ==
    {Key("Symbol", symbol.id[1], symbol.id[2], None, None, symbol.serial) :
        symbol \in Range(sym_last.result)}

\* the keys of the lookups: the start of two symbols, an address inside a function, an
\* address outside every image, a name two images define, an identity pair, an engine
\* symbol that is not exposed, and the Symbol returned last
LookupKeys ==
    LET lldb_symbol == ModuleTable(AllModules[1])[3]
    IN  {IntKey(4096), IntKey(4100), IntKey(36864), StrKey("dup"),
         IdKey("isdigit$UNIX2003", 4096),
         Key("SBSymbol", lldb_symbol.name, lldb_symbol.address, lldb_symbol.type,
             lldb_symbol.module, 0)}
        \cup LastSymbol

\* a mutation of sym_get: the lookup populates the cache first, as an enumeration does
sym_get_populates(l, keys) ==
    \E key \in keys, how \in {"get", "getitem"} :
    \E resolved \in _get_lldb_symbol(Target, key) :
       LET populated == SymPopulate(SymState, l, modules, added_symbols, _modules, None)
           got == SymGet(populated.S, l, resolved)
       IN  /\ Bounded(got.S, AddScans(scans, populated.scanned))
           /\ SetSymState(got.S)
           /\ _modules' = populated.cached
           /\ scans' = AddScans(scans, populated.scanned)
           /\ sym_last' = SymOp(how, l, None, Some(key), resolved, got.result,
                                IF how = "getitem" /\ got.result = Nothing
                                THEN "SymbolAbsentError" ELSE None, populated.scanned)
           /\ UNCHANGED <<modules, added_symbols, othervars>>
\* symbols.get(key), symbols[key] (and `key in symbols`, which is get(key) is not None)
sym_get(l, keys) ==
    \E key \in keys, how \in {"get", "getitem"} :
    \E resolved \in _get_lldb_symbol(Target, key) :
       LET got == SymGet(SymState, l, resolved)
       IN  /\ Bounded(got.S, scans)
           /\ SetSymState(got.S)
           /\ sym_last' = SymOp(how, l, None, Some(key), resolved, got.result,
                                IF how = "getitem" /\ got.result = Nothing
                                THEN "SymbolAbsentError" ELSE None, <<>>)
           /\ UNCHANGED <<modules, added_symbols, _modules, scans, othervars>>

\* symbols.<attribute_name>
sym_getattr(l) ==
    \E attribute_name \in {"isdigit", "nosuch", "x001000", "x0x009000"} :
    \E resolved \in _get_lldb_symbol(Target, AttributeKey(attribute_name)) :
       LET got == SymGetAttr(SymState, l, attribute_name, resolved, modules, added_symbols)
       IN  /\ Bounded(got.S, scans)
           /\ SetSymState(got.S)
           /\ added_symbols' = got.added
           /\ sym_last' = SymOp("getattr", l, None, Some(AttributeKey(attribute_name)),
                                resolved, got.result, got.raised, <<>>)
           /\ UNCHANGED <<modules, _modules, scans, othervars>>

\* for symbol in symbols, len(symbols), symbols.values(), dir(symbols)
sym_iter(l) ==
    LET populated == SymPopulate(SymState, l, modules, added_symbols, _modules, None)
    IN  /\ Bounded(populated.S, AddScans(scans, populated.scanned))
        /\ SetSymState(populated.S)
        /\ _modules' = populated.cached
        /\ scans' = AddScans(scans, populated.scanned)
        /\ sym_last' = SymOp("iter", l, None, Nothing, Nothing, Nothing, None,
                             populated.scanned)
        /\ UNCHANGED <<modules, added_symbols, othervars>>

\* symbols.filter_by_module(substring)
sym_filter_by_module(l) ==
    \E substring \in {"system", "objc"} :
       LET filtered == SymFilterByModule(SymState, l, substring, modules, added_symbols)
       IN  /\ Bounded(filtered.S, AddScans(scans, filtered.scanned))
           /\ SetSymState(filtered.S)
           /\ scans' = AddScans(scans, filtered.scanned)
           /\ sym_last' = SymOp("filter_by_module", l, None, Some(StrKey(substring)), Nothing,
                                Nothing, None, filtered.scanned)
           /\ UNCHANGED <<modules, added_symbols, _modules, othervars>>

\* symbols.filter_data_symbols(), filter_startswith('is'), filter_endswith('digit'),
\* filter_name_contains('dig')
sym_filter(l) ==
    \E how \in {"Data", "filter_startswith", "filter_endswith", "filter_name_contains"} :
       LET filtered == SymFilter(SymState, l, how, modules, added_symbols, _modules)
       IN  /\ Bounded(filtered.S, AddScans(scans, filtered.scanned))
           /\ SetSymState(filtered.S)
           /\ _modules' = filtered.cached
           /\ scans' = AddScans(scans, filtered.scanned)
           /\ sym_last' = SymOp("filter", l, None, Some(StrKey(how)), Nothing, Nothing, None,
                                filtered.scanned)
           /\ UNCHANGED <<modules, added_symbols, othervars>>

\* symbols.force_refresh(module_range, module_filename_filter)
sym_force_refresh(l) ==
    \E module_range \in {Nothing, Some(<<0, 0>>)}, module_filename_filter \in {"", "objc"} :
    \E resolved \in _get_lldb_symbol(Target, StrKey("log_debug")) :
       LET refreshed == SymForceRefresh(SymState, l, module_range, module_filename_filter,
                                        resolved, modules, added_symbols)
       IN  /\ Bounded(refreshed.S, AddScans(scans, refreshed.scanned))
           /\ SetSymState(refreshed.S)
           /\ scans' = AddScans(scans, refreshed.scanned)
           /\ sym_last' = SymOp("force_refresh", l, None,
                                Some([module_range |-> module_range,
                                      module_filename_filter |-> module_filename_filter]),
                                Nothing, Nothing, refreshed.raised, refreshed.scanned)
           /\ UNCHANGED <<modules, added_symbols, _modules, othervars>>

\* symbols.add(value, symbol_name, symbol_type, symbol_size)
sym_add(l, inputs) ==
    \E input \in inputs :
    \E resolved \in _get_lldb_symbol(Target, IF input[2] = None THEN IntKey(input[1].address)
                                              ELSE IdKey(input[2], input[1].address)) :
       LET value == input[1]
           symbol_name == input[2]
           done == SymAdd(SymState, l, value, symbol_name, input[3], resolved, modules,
                          added_symbols)
       IN  /\ Bounded(done.S, scans)
           /\ SetSymState(done.S)
           /\ added_symbols' = done.added
           /\ sym_last' = SymOp("add", l, symbol_name, Some(value), resolved, done.result,
                                done.raised, <<>>)
           /\ UNCHANGED <<modules, _modules, scans, othervars>>

\* symbols.remove(key), del symbols[key]
sym_remove(l, keys) ==
    \E key \in keys :
    \E resolved \in _get_lldb_symbol(Target, key) :
       LET removed == SymRemove(SymState, l, resolved)
       IN  /\ SetSymState(removed.S)
           /\ sym_last' = SymOp("remove", l, None, Some(key),
                                IF l = "global" THEN Nothing ELSE resolved, Nothing,
                                removed.raised, <<>>)
           /\ UNCHANGED <<modules, added_symbols, _modules, scans, othervars>>

\* a + b
sym_union ==
    \E a \in {"A", "B"}, b \in {"A", "B"} :
       LET united == SymUnion(SymState, a, b)
       IN  /\ Bounded(united, scans)
           /\ SetSymState(united)
           /\ sym_last' = SymOp("union", a, b, Nothing, Nothing, Nothing, None, <<>>)
           /\ UNCHANGED <<modules, added_symbols, _modules, scans, othervars>>

\* a - b
sym_difference ==
    \E a \in {"A", "B"}, b \in {"A", "B"} :
       /\ SetSymState(SymDifference(SymState, a, b, Target))
       /\ sym_last' = SymOp("difference", a, b, Nothing, Nothing, Nothing, None, <<>>)
       /\ UNCHANGED <<modules, added_symbols, _modules, scans, othervars>>

\* the engine: the process loads its next image
EngineModuleLoad ==
    /\ Len(modules) < Len(AllModules)
    /\ modules' = Append(modules, AllModules[Len(modules) + 1])
    /\ UNCHANGED <<added_symbols, _symbols, _symbols_by_name, _modules, scans, created,
                   sym_last, othervars>>

\* the global list and the engine's symbol tables, in a session that starts with one
\* image loaded
InitCatalog == InitSession /\ InitSymbols(<<AllModules[1]>>)

NextCatalog ==
    \/ sym_get("global", LookupKeys)
    \/ sym_iter("global")
    \/ sym_filter_by_module("global")
    \/ sym_force_refresh("global")
    \/ EngineModuleLoad

SpecCatalog == InitCatalog /\ [][NextCatalog]_vars

\* the global list and the Symbols it hands out; what is added, as <<value, symbol_name,
\* hints>>: an address a symbol starts at, an address outside every image, an address no
\* symbol starts at (under a new name and under a name its image has already), and the
\* Symbol returned last
NextLookup ==
    \/ sym_get("global", LookupKeys)
    \/ sym_getattr("global")
    \/ sym_add("global", {<<IntKey(4096), None, FALSE>>, <<IntKey(4096), None, TRUE>>,
                          <<IntKey(36864), None, FALSE>>,
                          <<IntKey(4864), "injected", FALSE>>, <<IntKey(4864), "dup", FALSE>>}
                         \cup {<<value, None, FALSE>> : value \in LastSymbol}
                         \cup {<<value, "dup", FALSE>> : value \in LastSymbol})
    \/ sym_remove("global", {IntKey(4096)} \cup LastSymbol)

SpecLookup == InitCatalog /\ [][NextLookup]_vars

\* a list a caller owns, next to the global list: the keys are the start of a symbol,
\* an address inside it, a name two images define, an identity pair and the Symbol
\* returned last; what is added is the two symbols of that name and a new symbol
ViewKeys ==
    {IntKey(4608), IntKey(4612), StrKey("dup"), IdKey("dup", 8704)} \cup LastSymbol

NextViews ==
    \/ \E l \in {"A", "global"} : sym_get(l, ViewKeys)
    \/ sym_add("A", {<<IntKey(4608), None, FALSE>>, <<IntKey(8704), None, FALSE>>,
                     <<IntKey(4864), "injected", FALSE>>}
                    \cup {<<value, None, FALSE>> : value \in LastSymbol})
    \/ \E l \in {"A", "global"} : sym_remove(l, ViewKeys)

SpecViews == Init /\ [][NextViews]_vars

\* a list a caller owns and the global list: an address no symbol holds is added under a
\* new name, under a name its module has and under a name another module has, and looked up
NextNamed ==
    \/ sym_add("A", {<<IntKey(4864), "injected", FALSE>>, <<IntKey(4864), "dup", FALSE>>,
                     <<IntKey(8960), "isdigit", FALSE>>})
    \/ \E l \in {"A", "global"} :
          sym_get(l, {IntKey(4864), IntKey(8960), StrKey("isdigit"), StrKey("injected")})
    \/ \E l \in {"A", "global"} : sym_remove(l, {IntKey(8960), StrKey("injected")})

SpecNamed == Init /\ [][NextNamed]_vars

\* two lists a caller owns, their sum and their difference
NextAlgebra ==
    \/ \E l \in {"A", "B"} : sym_add(l, {<<IntKey(4096), "isdigit", FALSE>>,
                                       <<IntKey(4608), None, FALSE>>})
    \/ sym_union
    \/ sym_difference

SpecAlgebra == Init /\ [][NextAlgebra]_vars

\* a list a caller owns and the global list: filters, and lookups in their result
NextFilters ==
    \/ sym_add("A", {<<IntKey(4096), "isdigit", FALSE>>, <<IntKey(8704), None, FALSE>>})
    \/ \E l \in {"A", "global"} : sym_filter_by_module(l)
    \/ \E l \in {"A", "global"} : sym_filter(l)
    \/ sym_union
    \/ sym_difference
    \/ sym_get("R", {StrKey("isdigit"), StrKey("dup")})

SpecFilters == Init /\ [][NextFilters]_vars

\* ================================================================ properties
\* the breakpoints `for bp in self` yields with bp.where == where
TrackedAt(tgt, book, where) ==
    {id \in DOMAIN tgt : BpIterTable(tgt, book)[id].where = where}

\* the user callbacks the router runs when the engine reports a hit at loc
HitCallbacksAt(tgt, book, loc) ==
    {BpGetTable(tgt, book, id)[id].callback :
        id \in {i \in DOMAIN tgt : tgt[i].loc = loc /\ tgt[i].wired = "list"}}

\* C1: the ids of the bookkeeping table are the ids of the live native
\* breakpoints the manager tracks: no id of the table is a deleted native
\* breakpoint, and a breakpoint that add just created is in both.
C1_TableMatchesNative ==
    /\ DOMAIN _breakpoints \subseteq DOMAIN target_breakpoints
    /\ (last.op = "add" /\ last.raised = None) =>
           last.id \in DOMAIN _breakpoints \cap DOMAIN target_breakpoints

\* C2 (as claimed): add(X, cb2, c2, override=true) with a tracked breakpoint at X
\* leaves exactly one tracked breakpoint at X, carrying cb2 and c2, and a hit at
\* X runs cb2 only.
C2_ExactlyOneAfterOverride ==
    [][(last'.op = "add" /\ last'.flag /\ last'.raised = None
          /\ TrackedAt(target_breakpoints, _breakpoints, last'.where) # {})
        => /\ TrackedAt(target_breakpoints', _breakpoints', last'.where) = {last'.id}
           /\ _breakpoints'[last'.id].callback = last'.callback
           /\ target_breakpoints'[last'.id].condition = last'.condition
           /\ HitCallbacksAt(target_breakpoints', _breakpoints', last'.where)
                 \subseteq {last'.callback}]_vars

\* C2 (amended): an accepted add(X, cb2, c2, override=true) with tracked
\* breakpoints at X removes the unguarded ones, keeps the guarded ones, and
\* tracks the new breakpoint at X with cb2 and c2; when none at X was guarded
\* the new one is the only one at X and a hit at X runs cb2 only.
C2_OverrideReplacesUnguarded ==
    [][(last'.op = "add" /\ last'.flag /\ last'.raised = None
          /\ TrackedAt(target_breakpoints, _breakpoints, last'.where) # {})
        => LET X == last'.where
               before == TrackedAt(target_breakpoints, _breakpoints, X)
               kept == {i \in before : _breakpoints[i].guarded}
               after == TrackedAt(target_breakpoints', _breakpoints', X)
           IN  /\ last'.id \notin before
               /\ after = kept \cup {last'.id}
               /\ _breakpoints'[last'.id].callback = last'.callback
               /\ target_breakpoints'[last'.id].condition = last'.condition
               /\ (target_breakpoints'[last'.id].wired = "list") <=> (last'.callback # None)
               /\ \A i \in kept : /\ target_breakpoints'[i] = target_breakpoints[i]
                                  /\ _breakpoints'[i] = _breakpoints[i]
               /\ kept = {} =>
                     HitCallbacksAt(target_breakpoints', _breakpoints', X)
                        = {last'.callback} \ {None}]_vars

\* C2 witness: an override add has replaced a tracked breakpoint at its where
C2_Witness ==
    /\ last.op = "add" /\ last.flag /\ last.raised = None
    /\ last.removed # {}
    /\ TrackedAt(target_breakpoints, _breakpoints, last.where) = {last.id}

\* the live breakpoints that are guarded (BreakpointList) or forced (HildaClient)
GuardedLive(tgt, book, tbl) ==
    {i \in DOMAIN tgt \cap DOMAIN book : book[i].guarded}
        \cup {i \in DOMAIN tgt \cap DOMAIN tbl : tbl[i].forced}

\* C3: no operation without the explicit remove-guarded flag removes a guarded
\* breakpoint: remove, del, clear, bulk removal and add/bp with override all
\* leave it live and guarded.
C3_GuardedNeverRemoved ==
    [][(~last'.flag \/ last'.op \in {"add", "bp"})
          /\ last'.op # "remove_hilda_breakpoint"
        => GuardedLive(target_breakpoints, _breakpoints, breakpoints)
              \subseteq GuardedLive(target_breakpoints', _breakpoints', breakpoints')]_vars

\* C4: remove of a guarded breakpoint without remove_guarded returns normally
\* and changes neither the native breakpoint nor the table; with
\* remove_guarded=true the breakpoint is removed.
C4_GuardedRemove ==
    [][(last'.op = "remove"
          /\ last'.id \in DOMAIN target_breakpoints \cap DOMAIN _breakpoints
          /\ _breakpoints[last'.id].guarded)
        => /\ last'.raised = None
           /\ ~last'.flag => /\ target_breakpoints' = target_breakpoints
                             /\ _breakpoints' = _breakpoints
                             /\ last'.removed = {}
           /\ last'.flag => /\ last'.id \notin DOMAIN target_breakpoints'
                            /\ last'.removed = {last'.id}
                            /\ BpRemove(target_breakpoints', _breakpoints',
                                        last'.id, TRUE)[3] = "KeyError"]_vars

\* C4 witness: a remove without remove_guarded has been ignored for a guarded
\* breakpoint, which is still live
C4_Witness ==
    /\ last.op = "remove" /\ ~last.flag /\ last.raised = None
    /\ last.id \in DOMAIN target_breakpoints \cap DOMAIN _breakpoints
    /\ _breakpoints[last.id].guarded

\* a router call is between its entry and the end of its finally
InDispatch(t) == pc[t] \in {"lookup", "callback", "finally"}

\* C5: whenever a breakpoint or watchpoint dispatch finishes (the callback
\* returned, it raised, or the lookup of the id failed) the published frame is
\* cleared, so the current frame is the selected frame of the live thread, and
\* what was raised inside leaves the dispatch.
C5_DispatchCleanup ==
    [][\A t \in Threads :
          (InDispatch(t) /\ ~InDispatch(t)')
              => /\ _bp_frame' = None
                 /\ CurrentFrame' = selected_frame'
                 /\ escaped'[t] = ctx[t].exc]_vars

\* C5: a callback has raised, the dispatch is over, the context is cleared and
\* the exception has left the router
C5_Witness ==
    /\ escaped["engine"] = "CallbackError"
    /\ ~InDispatch("engine")
    /\ _bp_frame = None

CallbackMoves(t) == pc[t] = "callback" /\ (pc'[t] # pc[t] \/ ctx'[t] # ctx[t])
CallsFinish(t) == CallbackMoves(t) /\ ctx'[t].ops > ctx[t].ops /\ ctx'[t].did = "finish"

C7_OneDispatchAtATime ==
    /\ Cardinality({t \in Threads : InDispatch(t)}) <= 1
    /\ \A t \in Threads :
          (pc[t] = "callback" /\ ~ctx[t].finished) => _bp_frame = ctx[t].frame

\* C8: the listener thread is never inside the dispatch router and none of its
\* steps writes the tables or the current-frame context.
C8_ListenerOnlyHandsOff ==
    [][/\ ~InDispatch("listener")'
       /\ (pc["listener"] # pc'["listener"] \/ last_state # last_state'
           \/ (events' # events /\ Len(events') < Len(events)))
              => UNCHANGED <<_bp_frame, _breakpoints, _watchpoints>>]_vars

\* C9: on one hit the monitor callback unwinds to the caller at most once, also
\* with both the backtrace and the return value requested, and both are taken
\* in the frame of the caller of the hit function (stated for monitors without
\* force_return, which unwinds on its own account).
C9_UnwindsAtMostOnce ==
    (log_message.hit > 0 /\ options.force_return = None) =>
        /\ log_message.finishes <= 1
        /\ log_message.bt_frame \in {None, CallerOf(FrameNames[1])}
        /\ log_message.retval_frame \in {None, CallerOf(FrameNames[1])}

\* C10: on every hit the log line names the explicit name option when one was
\* given and the symbol resolved at the hit PC otherwise.
C10_DisplayName ==
    log_message.hit > 0 =>
        log_message.printed_name =
            (IF options.name # None THEN options.name ELSE ResolvedName)

\* the steps of a hit that C11 orders
OrderedStep(step) == step[1] \in {"format", "log_info", "cmd", "cont"}

IsLookup(op) == op.op \in {"get", "getitem"}

\* C12: for every regular symbol (name, address) the global list's get returns the very
\* same entity whatever the form of the key: a lookup by address returns the entity of
\* every symbol cached for that address, such as the one a prior get((name, address)) made
C12_SameEntityForAddress ==
    (IsLookup(sym_last) /\ sym_last.list = "global" /\ sym_last.key[1].kind = "int"
     /\ sym_last.result # Nothing)
    => \A sym_id \in DOMAIN _symbols["global"] :
          sym_id[2] = sym_last.key[1].address
          => sym_last.result[1] = _symbols["global"][sym_id]

\* C12, amended: get on the global list returns the entity cached for the identity the key
\* resolves to (its own identity for a pair, an engine symbol or a Symbol; a symbol that
\* starts at the address for an address; a symbol of that name for a name), and the entity
\* cached for an identity is never replaced or dropped by any operation
C12_IdentityStable ==
    [][/\ \A sym_id \in DOMAIN _symbols["global"] :
             /\ sym_id \in DOMAIN _symbols'["global"]
             /\ _symbols'["global"][sym_id] = _symbols["global"][sym_id]
       /\ (IsLookup(sym_last') /\ sym_last'.list = "global" /\ sym_last'.resolved # Nothing)
          => LET key == sym_last'.key[1]
                 sym_id == sym_last'.resolved[1]
             IN  /\ sym_last'.result = Some(_symbols'["global"][sym_id])
                 /\ sym_last'.result[1].id = sym_id
                 /\ key.kind \in {"id", "Symbol", "SBSymbol"}
                       => sym_id = <<key.name, key.address>>
                 /\ key.kind = "int" => sym_id[2] = key.address
                 /\ key.kind = "str" => sym_id[1] = key.name]_vars

\* C12: a lookup by address returned the entity of one of two symbols cached for it
C12_Witness ==
    /\ IsLookup(sym_last) /\ sym_last.list = "global"
    /\ sym_last.key = Some(IntKey(4096))
    /\ sym_last.result # Nothing
    /\ Cardinality({sym_id \in DOMAIN _symbols["global"] : sym_id[2] = 4096}) = 2
    /\ \E sym_id \in DOMAIN _symbols["global"] :
          sym_id[2] = 4096 /\ _symbols["global"][sym_id] # sym_last.result[1]

\* the step is an operation `op` of the global list (an image load leaves sym_last alone)
GlobalStep(op) == sym_last'.op = op /\ sym_last'.list = "global" /\ modules' = modules

\* C13: the symbol table of a module is enumerated at most once per session, across
\* enumerations, filters and point lookups
C13_OneScanPerModule == \A m \in DOMAIN scans : scans[m] <= 1

\* C13, amended: the populated set only grows; enumerating all symbols scans exactly the
\* loaded modules that are not in the populated set and puts them into it, so a module is
\* scanned at most once by enumerations and a second enumeration with no image loaded in
\* between scans nothing; filter_by_module on the global list scans every matching module
\* on every call and leaves the populated set alone
C13_PopulateOnce ==
    [][/\ _modules \subseteq _modules'
       /\ GlobalStep("iter")
          => /\ sym_last'.scanned = SelectSeq(modules, LAMBDA m : m \notin _modules)
             /\ _modules' = _modules \cup Range(modules)
             /\ scans' = AddScans(scans, sym_last'.scanned)
       /\ GlobalStep("filter_by_module")
          => /\ sym_last'.scanned
                = SelectSeq(modules, LAMBDA m : Contains(sym_last'.key[1].name, m))
             /\ _modules' = _modules
             /\ scans' = AddScans(scans, sym_last'.scanned)]_vars

\* C13: an enumeration that scanned nothing, after a filter scanned a populated module again
C13_Witness ==
    /\ sym_last.op = "iter" /\ sym_last.list = "global"
    /\ sym_last.scanned = <<>>
    /\ _modules = Range(modules)
    /\ Len(modules) = 2
    /\ \E m \in DOMAIN scans : scans[m] = 2

\* C14: force_refresh on the global list scans, on every call, each loaded module in the
\* index range whose basename contains the filter, whatever its populated state, and
\* afterwards every resolvable symbol of those modules is in the list
C14_ForceRefreshRescans ==
    [][GlobalStep("force_refresh")
       => LET args == sym_last'.key[1]
              expected == RefreshModules(modules, args.module_range,
                                         args.module_filename_filter)
          IN  /\ sym_last'.raised = None
              /\ sym_last'.scanned = expected
              /\ \A s \in Range(TargetSymbols(expected, added_symbols)) :
                    ConvertSymbol(s) # Nothing
                    => <<s.name, s.address>> \in DOMAIN _symbols'["global"]]_vars

\* C15: a point lookup on the global list scans no symbol table, leaves the populated set
\* unchanged and caches at most the one identity it resolved
C15_LookupScansNothing ==
    [][(IsLookup(sym_last') /\ sym_last'.list = "global" /\ modules' = modules)
       => /\ sym_last'.scanned = <<>>
          /\ scans' = scans
          /\ _modules' = _modules
          /\ (DOMAIN _symbols'["global"] \ DOMAIN _symbols["global"])
             \subseteq Range(sym_last'.resolved)]_vars

\* C15: a lookup cached the symbol it resolved while no module has been scanned
C15_Witness ==
    /\ IsLookup(sym_last) /\ sym_last.list = "global"
    /\ sym_last.result # Nothing
    /\ DOMAIN _symbols["global"] = Range(sym_last.resolved)
    /\ _modules = {}
    /\ \A m \in DOMAIN scans : scans[m] = 0

\* C16: every symbol a list other than the global one holds is the global list's entity for
\* that identity; add on such a list puts in the global entry, the one that was there or
\* the one it has just made there
C16_ViewsHoldGlobalEntities ==
    [][/\ \A l \in Lists \ {"global"} : \A sym_id \in DOMAIN _symbols'[l] :
             /\ sym_id \in DOMAIN _symbols'["global"]
             /\ _symbols'[l][sym_id] = _symbols'["global"][sym_id]
       /\ (/\ sym_last'.op = "add" /\ sym_last'.list \in {"A", "B"} /\ sym_last'.raised = None
           /\ IsRegular(sym_last'.result[1]))
          => LET symbol == sym_last'.result[1]
             IN  /\ _symbols'[sym_last'.list][symbol.id] = symbol
                 /\ _symbols'["global"][symbol.id] = symbol
                 /\ symbol.id \in DOMAIN _symbols["global"]
                       => _symbols["global"][symbol.id] = symbol]_vars

\* C16: add on a list made a new symbol in the global list and holds that entity
C16_Witness ==
    /\ sym_last.op = "add" /\ sym_last.list = "A" /\ sym_last.other = "injected"
    /\ sym_last.raised = None
    /\ <<"injected", 4864>> \in DOMAIN _symbols["A"]
    /\ _symbols["A"][<<"injected", 4864>>] = _symbols["global"][<<"injected", 4864>>]
    /\ Len(added_symbols) = 1

\* C17: remove on the global list always raises and changes nothing; remove on another
\* list deletes a symbol the list holds from that list only, and raises without a change
\* when the list does not hold it (as on a second removal); the global list never shrinks
C17_RemoveOnlyFromViews ==
    [][/\ DOMAIN _symbols["global"] \subseteq DOMAIN _symbols'["global"]
       /\ (sym_last'.op = "remove" /\ sym_last'.list = "global")
          => /\ sym_last'.raised = "Exception"
             /\ UNCHANGED <<_symbols, _symbols_by_name, _modules, created, added_symbols>>
       /\ (sym_last'.op = "remove" /\ sym_last'.list \in {"A", "B"})
          => LET l == sym_last'.list
                 held == sym_last'.resolved # Nothing
                         /\ sym_last'.resolved[1] \in DOMAIN _symbols[l]
             IN  /\ \A k \in Lists \ {l} : _symbols'[k] = _symbols[k]
                 /\ held => _symbols'[l] = Without(_symbols[l], {sym_last'.resolved[1]})
                 /\ ~held => /\ sym_last'.raised = "SymbolAbsentError"
                             /\ _symbols'[l] = _symbols[l]]_vars

\* C17: a symbol was removed from a list and removing it again has failed, the global list
\* still holding it
C17_Witness ==
    /\ sym_last.op = "remove" /\ sym_last.list = "A"
    /\ sym_last.raised = "SymbolAbsentError"
    /\ sym_last.resolved = Some(<<"dup", 4608>>)
    /\ <<"dup", 4608>> \notin DOMAIN _symbols["A"]
    /\ "dup" \in DOMAIN _symbols_by_name["A"]
    /\ <<"dup", 4608>> \in DOMAIN _symbols["global"]

\* no symbol of a loaded image holds the address
NoEntryAt(address) ==
    \A s \in Range(Target) : ~(s.address <= address /\ address < s.address + SymbolSize)

\* C18: get of an address that has no symbol-table entry returns an anonymous Symbol with
\* that address
C18_GetReturnsAnonymous ==
    (/\ IsLookup(sym_last) /\ sym_last.list = "global"
     /\ sym_last.key[1].kind = "int" /\ NoEntryAt(sym_last.key[1].address))
    => /\ sym_last.result # Nothing
       /\ sym_last.result[1].id = <<None, sym_last.key[1].address>>

\* C18, amended: get of an address that has no symbol-table entry returns None and makes
\* nothing; it is add(address), and the x<hex> attribute which calls it, that returns an
\* anonymous Symbol with the requested address when no symbol resolves there: a new object
\* on every call, put into neither _symbols nor _symbols_by_name
C18_AddReturnsAnonymous ==
    [][/\ (/\ IsLookup(sym_last') /\ sym_last'.list = "global"
           /\ sym_last'.key[1].kind = "int" /\ NoEntryAt(sym_last'.key[1].address))
          => /\ sym_last'.result = Nothing
             /\ UNCHANGED <<_symbols, _symbols_by_name, created>>
       /\ (/\ sym_last'.op \in {"add", "getattr"} /\ sym_last'.other = None
           /\ sym_last'.key[1].name = None /\ sym_last'.raised = None
           /\ sym_last'.resolved = Nothing)
          => LET sym_id == <<None, sym_last'.key[1].address>>
             IN  /\ sym_last'.result = Some(SymbolObject(sym_id, CountOf(created, sym_id) + 1))
                 /\ created' = With(created, sym_id, CountOf(created, sym_id) + 1)
                 /\ UNCHANGED <<_symbols, _symbols_by_name>>]_vars

\* C18: the second anonymous Symbol for one address has been returned, none of them cached
C18_Witness ==
    /\ sym_last.op \in {"add", "getattr"} /\ sym_last.list = "global"
    /\ sym_last.key = Some(IntKey(36864))
    /\ sym_last.result = Some(SymbolObject(<<None, 36864>>, 2))
    /\ NoEntryAt(36864)
    /\ \A sym_id \in DOMAIN _symbols["global"] : sym_id[2] # 36864

\* C19: get(address), on the global list and on any other, returns None without raising
\* and adds nothing when the address is not the exact start of a symbol the lists expose
C19_GetInsideReturnsNone ==
    [][(IsLookup(sym_last') /\ sym_last'.key[1].kind = "int"
        /\ ~\E s \in Range(Target) :
               s.address = sym_last'.key[1].address /\ ConvertSymbol(s) # Nothing)
       => /\ sym_last'.result = Nothing
          /\ sym_last'.op = "get" => sym_last'.raised = None
          /\ UNCHANGED <<_symbols, _symbols_by_name, created, added_symbols>>]_vars

\* C19: a list that holds a function answered None for an address 4 bytes into it
C19_Witness ==
    /\ sym_last.op = "get" /\ sym_last.list = "A"
    /\ sym_last.key = Some(IntKey(4612))
    /\ sym_last.result = Nothing /\ sym_last.raised = None
    /\ <<"dup", 4608>> \in DOMAIN _symbols["A"]

\* C20: a + b is a new list that holds exactly the identities of a or b, a - b exactly the
\* identities of a that b does not hold, each as the entity of the global list; a and b
\* are left as they were
C20_UnionAndDifference ==
    [][sym_last'.op \in {"union", "difference"}
       => LET a == sym_last'.list
              b == sym_last'.other
          IN  /\ DOMAIN _symbols'["R"]
                 = IF sym_last'.op = "union"
                   THEN DOMAIN _symbols[a] \cup DOMAIN _symbols[b]
                   ELSE DOMAIN _symbols[a] \ DOMAIN _symbols[b]
              /\ \A sym_id \in DOMAIN _symbols'["R"] :
                    _symbols'["R"][sym_id] = _symbols["global"][sym_id]
              /\ Len(Values(_symbols'["R"], DOMAIN _symbols'["R"]))
                 = Cardinality(DOMAIN _symbols'["R"])
              /\ \A l \in Lists \ {"R"} : _symbols'[l] = _symbols[l]]_vars

\* C20: the sum of two lists that share a symbol and differ in another
C20_Witness ==
    /\ sym_last.op = "union" /\ sym_last.list = "A" /\ sym_last.other = "B"
    /\ DOMAIN _symbols["A"] \cap DOMAIN _symbols["B"] # {}
    /\ DOMAIN _symbols["A"] # DOMAIN _symbols["B"]
    /\ DOMAIN _symbols["R"] = DOMAIN _symbols["A"] \cup DOMAIN _symbols["B"]

\* C21: union, difference and every filter leave the receiver unchanged: its symbols, its
\* name index and, for the global list, its populated set are after the call what they
\* were before
C21_ReceiverUnchanged ==
    [][sym_last'.op \in {"union", "difference", "filter_by_module", "filter"}
       => LET l == sym_last'.list
          IN  /\ _symbols'[l] = _symbols[l]
              /\ _symbols_by_name'[l] = _symbols_by_name[l]
              /\ l = "global" => _modules' = _modules]_vars

\* C21, amended: union, difference and every filter put their result into a new list and
\* leave a receiver other than the global list, and every other such list, unchanged.  On
\* the global list a filter removes and replaces nothing but fills the cache:
\* filter_by_module caches symbols of the matching modules and leaves the populated set
\* alone, the other filters enumerate the list, which scans every loaded module that is
\* not populated yet and marks it populated
C21_DerivedViews ==
    [][sym_last'.op \in {"union", "difference", "filter_by_module", "filter"}
       => LET l == sym_last'.list
              fresh == DOMAIN _symbols'["global"] \ DOMAIN _symbols["global"]
          IN  /\ \A k \in Lists \ {"R", "global"} :
                    /\ _symbols'[k] = _symbols[k]
                    /\ _symbols_by_name'[k] = _symbols_by_name[k]
              /\ \A sym_id \in DOMAIN _symbols["global"] :
                    /\ sym_id \in DOMAIN _symbols'["global"]
                    /\ _symbols'["global"][sym_id] = _symbols["global"][sym_id]
              /\ l # "global" => /\ fresh = {}
                                 /\ _symbols_by_name'["global"] = _symbols_by_name["global"]
                                 /\ _modules' = _modules
                                 /\ DOMAIN _symbols'["R"] \subseteq
                                       DOMAIN _symbols[l]
                                       \cup (IF sym_last'.other \in Lists
                                             THEN DOMAIN _symbols[sym_last'.other] ELSE {})
              /\ (l = "global" /\ sym_last'.op = "filter_by_module")
                    => /\ _modules' = _modules
                       /\ \A sym_id \in fresh :
                             Contains(sym_last'.key[1].name, ModuleOf(modules, sym_id[2]))
              /\ (l = "global" /\ sym_last'.op = "filter")
                    => /\ _modules' = Range(modules)
                       /\ sym_last'.scanned
                             = SelectSeq(modules, LAMBDA m : m \notin _modules)
                       /\ (fresh # {} => sym_last'.scanned # <<>>)]_vars

\* C21: a filter by name on the global list has scanned the modules and filled the list it
\* was called on
C21_Witness ==
    /\ sym_last.op = "filter" /\ sym_last.list = "global"
    /\ sym_last.key = Some(StrKey("filter_startswith"))
    /\ sym_last.scanned # <<>>
    /\ _modules = Range(modules)
    /\ DOMAIN _symbols["R"] = {<<"isdigit", 4096>>, <<"isdigit$UNIX2003", 4096>>}
    /\ DOMAIN _symbols["R"] \subseteq DOMAIN _symbols["global"]

\* C22: filter_by_module(M) on the global list returns a list that holds exactly the
\* regular symbols of the modules whose basename contains M; the name of a symbol of any
\* other module is reported absent by that list and present by the global list
C22_OtherModulesAbsent ==
    [][(sym_last'.op = "filter_by_module" /\ sym_last'.list = "global")
       => LET M == sym_last'.key[1].name
              regular == {s \in Range(Target) : ConvertSymbol(s) # Nothing}
              LookupName(l, n) ==
                  SymGet(SymState', l, _get_lldb_symbol_from_name(Target, n, Nothing)).result
          IN  /\ DOMAIN _symbols'["R"]
                    = {<<s.name, s.address>> : s \in {t \in regular : Contains(M, t.module)}}
              /\ \A s \in regular :
                    ~Contains(M, s.module)
                    => /\ <<s.name, s.address>> \notin DOMAIN _symbols'["R"]
                       /\ LookupName("R", s.name) = Nothing
                       /\ LookupName("global", s.name) # Nothing]_vars

\* C22, amended: filter_by_module(M) on the global list returns a list that holds exactly
\* the regular symbols of the modules whose basename contains M, each as the entity of the
\* global list.  A lookup by name on that list goes by the first symbol the engine finds
\* for the name: the name is present when that symbol is a member and absent when it is
\* not (a name that only other modules define is absent, and so is the name of a member
\* that a module loaded earlier defines as well); the global list keeps resolving it
C22_FilterByModule ==
    [][/\ (sym_last'.op = "filter_by_module" /\ sym_last'.list = "global")
          => LET M == sym_last'.key[1].name
                 regular == {s \in Range(Target) : ConvertSymbol(s) # Nothing}
                 First(n) == _get_lldb_symbol_from_name(Target, n, Nothing)
                 LookupName(l, n) == SymGet(SymState', l, First(n)).result
             IN  /\ DOMAIN _symbols'["R"]
                       = {<<s.name, s.address>> : s \in {t \in regular : Contains(M, t.module)}}
                 /\ \A sym_id \in DOMAIN _symbols'["R"] :
                       _symbols'["R"][sym_id] = _symbols'["global"][sym_id]
                 /\ \A s \in regular :
                       /\ LookupName("R", s.name) # Nothing
                             <=> Contains(M, First(s.name)[1].module)
                       /\ (~\E t \in regular : t.name = s.name /\ Contains(M, t.module))
                             => LookupName("R", s.name) = Nothing
                       /\ LookupName("global", s.name) # Nothing
                       /\ LookupName("global", s.name)[1].id
                             = <<s.name, First(s.name)[1].address>>
       /\ (IsLookup(sym_last') /\ sym_last'.list = "R")
          => /\ UNCHANGED <<_symbols, _symbols_by_name, _modules, created>>
             /\ sym_last'.result # Nothing
                   <=> (sym_last'.resolved # Nothing
                        /\ sym_last'.resolved[1] \in DOMAIN _symbols["R"])]_vars

\* C22: the list of the symbols of libobjc has reported isdigit absent, while it holds a
\* symbol of libobjc and the global list holds isdigit
C22_Witness ==
    /\ IsLookup(sym_last) /\ sym_last.list = "R"
    /\ sym_last.key = Some(StrKey("isdigit"))
    /\ sym_last.result = Nothing
    /\ DOMAIN _symbols["R"] = {<<"dup", 8704>>}
    /\ <<"isdigit", 4096>> \in DOMAIN _symbols["global"]
    /\ <<"dup", 8704>> \in DOMAIN _symbols["global"]

\* C23: add(address, name) on a list other than the global one, for a name the module of
\* the address does not have, makes a new named symbol in the global list and puts it into
\* the list, and afterwards both lists resolve the address and the name to that symbol; it
\* fails and changes neither list when the module has that name at another address
C23_AddNamedResolves ==
    [][(/\ sym_last'.op = "add" /\ sym_last'.list = "A"
        /\ sym_last'.other # None /\ sym_last'.key[1].kind = "int")
       => LET n == sym_last'.other
              address == sym_last'.key[1].address
              theirs == {s \in Range(ModuleSymbols(ModuleOf(modules, address), added_symbols)) :
                           s.name = n}
              T1 == TargetSymbols(modules', added_symbols')
              Lookup(l, r) == SymGet(SymState', l, r).result
          IN  /\ theirs = {}
                 => /\ sym_last'.raised = None
                    /\ sym_last'.result[1].id = <<n, address>>
                    /\ \A l \in {"A", "global"} :
                          /\ _symbols'[l][<<n, address>>] = sym_last'.result[1]
                          /\ \A r \in _get_lldb_symbol(T1, IntKey(address)) :
                                Lookup(l, r) = sym_last'.result
                          /\ Lookup(l, _get_lldb_symbol_from_name(T1, n, Nothing))
                                = sym_last'.result
              /\ (\E s \in theirs : s.address # address)
                 => /\ sym_last'.raised # None
                    /\ UNCHANGED <<_symbols, _symbols_by_name, created, added_symbols>>]_vars

\* C23, amended: such an add makes the new symbol in the engine and in the global list and
\* puts that entity into the list it was called on; both lists then resolve the address
\* and the pair (name, address) to it, and the bare name as well unless the engine finds
\* a symbol of that name in another module first, in which case the name keeps resolving
\* to that symbol.  It fails and changes nothing when the module of the address has the
\* name at another address
C23_AddNamed ==
    [][(/\ sym_last'.op = "add" /\ sym_last'.list = "A"
        /\ sym_last'.other # None /\ sym_last'.key[1].kind = "int")
       => LET n == sym_last'.other
              address == sym_last'.key[1].address
              lldb_module == ModuleOf(modules, address)
              theirs == {s \in Range(ModuleSymbols(lldb_module, added_symbols)) : s.name = n}
              T1 == TargetSymbols(modules', added_symbols')
              first == _get_lldb_symbol_from_name(T1, n, Nothing)
              Lookup(l, r) == SymGet(SymState', l, r).result
          IN  /\ theirs = {}
                 => /\ sym_last'.raised = None
                    /\ sym_last'.result[1].id = <<n, address>>
                    /\ added_symbols'
                          = Append(added_symbols, EngineSymbol(n, address, "Code", lldb_module))
                    /\ <<n, address>> \notin DOMAIN _symbols["global"]
                    /\ \A l \in {"A", "global"} :
                          /\ _symbols'[l][<<n, address>>] = sym_last'.result[1]
                          /\ \A r \in _get_lldb_symbol(T1, IntKey(address)) :
                                Lookup(l, r) = sym_last'.result
                          /\ Lookup(l, _get_lldb_symbol_from_name(T1, n, Some(address)))
                                = sym_last'.result
                          /\ first[1].address = address
                                => Lookup(l, first) = sym_last'.result
                          /\ first[1].address # address
                                => /\ first[1].module # lldb_module
                                   /\ Lookup(l, first) # sym_last'.result
              /\ (\E s \in theirs : s.address # address)
                 => /\ sym_last'.raised = "Exception"
                    /\ sym_last'.result = Nothing
                    /\ UNCHANGED <<_symbols, _symbols_by_name, created, added_symbols>>]_vars

\* C23: a symbol was added to a list under a new name, and the same address under a name
\* its module has already was refused
C23_Witness ==
    /\ sym_last.op = "add" /\ sym_last.list = "A" /\ sym_last.other = "dup"
    /\ sym_last.key = Some(IntKey(4864))
    /\ sym_last.raised = "Exception"
    /\ Len(added_symbols) = 1
    /\ _symbols["A"][<<"injected", 4864>>] = _symbols["global"][<<"injected", 4864>>]
    /\ <<"dup", 4864>> \notin DOMAIN _symbols["global"]

\* C24: symbols[key] and symbols.<name> raise SymbolAbsentError exactly when get of the
\* same key would return None, and otherwise return the entity get returns; get itself
\* never raises
C24_MustExistAgreesWithGet ==
    [][(sym_last'.op \in {"get", "getitem", "getattr"} /\ sym_last'.list = "global")
       => LET key == sym_last'.key[1]
              attribute_name == IF key.address = 4096 THEN "x001000" ELSE "x0x009000"
              asked == IF sym_last'.op = "getattr" /\ key.kind = "int"
                       THEN StrKey(attribute_name) ELSE key
              answers == {r \in _get_lldb_symbol(Target, asked) :
                            asked = key => SymOp("get", "global", None, Nothing, r, Nothing,
                                                 None, <<>>).resolved = sym_last'.resolved}
          IN  \A r \in answers :
                 LET got == SymGet(SymState, "global", r).result
                 IN  IF sym_last'.op = "get"
                     THEN sym_last'.raised = None /\ sym_last'.result = got
                     ELSE /\ sym_last'.raised = "SymbolAbsentError" <=> got = Nothing
                          /\ sym_last'.raised = None <=> got # Nothing
                          /\ got # Nothing => sym_last'.result = got]_vars

\* C24, amended: symbols[key], for every key, and symbols.<name>, for every name that is
\* not x or x0x followed by 6 to 16 hexadecimal digits, raise SymbolAbsentError exactly
\* when get of the same key would return None, and otherwise return the entity get
\* returns; get itself never raises for an absent symbol.  An attribute of the x<hex> form
\* is add(address): it never raises SymbolAbsentError, although get of that attribute name
\* returns None, and returns the symbol that starts at the address or an anonymous one
C24_MustExist ==
    [][(sym_last'.op \in {"get", "getitem", "getattr"} /\ sym_last'.list = "global")
       => LET key == sym_last'.key[1]
              attribute_name == IF key.address = 4096 THEN "x001000" ELSE "x0x009000"
              hex == sym_last'.op = "getattr" /\ key.kind = "int"
              answers == {r \in _get_lldb_symbol(Target, key) :
                            SymOp("get", "global", None, Nothing, r, Nothing,
                                  None, <<>>).resolved = sym_last'.resolved}
          IN  /\ answers # {}
              /\ \A r \in answers :
                    LET got == SymGet(SymState, "global", r).result
                    IN  CASE sym_last'.op = "get" ->
                               sym_last'.raised = None /\ sym_last'.result = got
                          [] hex ->
                               /\ _get_lldb_symbol(Target, StrKey(attribute_name)) = {Nothing}
                               /\ sym_last'.raised = None
                               /\ sym_last'.result # Nothing
                               /\ sym_last'.result[1].id[2] = key.address
                               /\ got # Nothing => sym_last'.result = got
                               /\ got = Nothing => sym_last'.result[1].id[1] = None
                          [] OTHER ->
                               /\ sym_last'.raised = "SymbolAbsentError" <=> got = Nothing
                               /\ sym_last'.raised = None <=> got # Nothing
                               /\ sym_last'.result = got]_vars

\* C24: symbols.nosuch raised SymbolAbsentError, after symbols.x0x009000 had returned an
\* anonymous Symbol
C24_Witness ==
    /\ sym_last.op = "getattr" /\ sym_last.list = "global"
    /\ sym_last.key = Some(StrKey("nosuch"))
    /\ sym_last.raised = "SymbolAbsentError" /\ sym_last.result = Nothing
    /\ CountOf(created, <<None, 36864>>) = 1

\* C25: clear() deletes every breakpoint that is not guarded and no guarded one,
\* clear(remove_guarded=True) deletes all of them; every breakpoint the target had when
\* clear was called is decided on once, none is skipped, and the others are left as they were
C25_ClearSnapshot ==
    [][last'.op = "clear"
       => LET snapshot == DOMAIN target_breakpoints
              book1 == BpIterTable(target_breakpoints, _breakpoints)
              Kept(id) == ~last'.flag /\ book1[id].guarded
          IN  /\ DOMAIN target_breakpoints' = {id \in snapshot : Kept(id)}
              /\ last'.removed = {id \in snapshot : ~Kept(id)}
              /\ \A id \in DOMAIN target_breakpoints' :
                    target_breakpoints'[id] = target_breakpoints[id]
              /\ \A id \in snapshot : _breakpoints'[id] = book1[id]
              /\ last'.flag => DOMAIN target_breakpoints' = {}
              /\ last'.raised = None
              /\ next_bp_id' = next_bp_id]_vars

\* C25: clear() has deleted two breakpoints that followed each other in the target
C25_Witness ==
    /\ last.op = "clear" /\ ~last.flag
    /\ Cardinality(last.removed) = 2
    /\ \E id \in last.removed : id + 1 \in last.removed

\* C26: a lookup by name finds a breakpoint only when exactly one breakpoint carries the
\* name; when several do it fails, and what the caller sees then differs from what the same
\* call gives when no breakpoint carries the name, with get, with indexing and with `in`
\* alike; a lookup by id finds the breakpoint whenever the target has it
C26_AmbiguousTellsApart ==
    [][last'.op \in {"get", "getitem", "contains"}
       => LET carriers == {id \in DOMAIN target_breakpoints :
                              last'.where \in target_breakpoints[id].names}
              absent == BpGet([i \in {} |-> 0], _breakpoints, <<0, last'.where>>, last'.op)
              asked == CHOOSE id \in last'.removed : TRUE
          IN  IF last'.where = None
              THEN /\ last'.flag <=> asked \in DOMAIN target_breakpoints
                   /\ last'.flag => last'.id = asked /\ last'.raised = None
              ELSE /\ last'.flag <=> Cardinality(carriers) = 1
                   /\ last'.flag => last'.id \in carriers /\ last'.raised = None
                   /\ Cardinality(carriers) > 1
                        => <<last'.flag, last'.raised>> # <<absent.id # 0, absent.raised>>]_vars

\* C27: remove never raises into its caller: for an id the target does not have, or has
\* no more, it changes nothing and returns, and for a guarded breakpoint it is asked to
\* remove without remove_guarded it leaves the breakpoint alone and returns
C27_RemoveNeverRaises ==
    [][last'.op = "remove"
       => LET absent == last'.id \notin DOMAIN target_breakpoints
              refused == /\ ~absent /\ ~last'.flag
                         /\ BpGetTable(target_breakpoints, _breakpoints, last'.id)[last'.id].guarded
          IN  /\ last'.raised = None
              /\ absent => UNCHANGED <<target_breakpoints, _breakpoints, next_bp_id>>
              /\ refused => UNCHANGED <<target_breakpoints, next_bp_id>>]_vars

C29_WiredIffCallback ==
    /\ \A id \in DOMAIN target_watchpoints \cap DOMAIN _watchpoints :
          target_watchpoints[id].wired <=> _watchpoints[id].callback # None
    /\ (last.op = "wp_hit" /\ last.callback = None) => last.raised = None /\ _bp_frame = None

\* C30: whichever path delivers a watchpoint hit, the dispatch it starts is for the id of
\* a watchpoint, the one the hit carries, it publishes a frame as the current frame, and
\* it is the only dispatch of that hit: the listener thread starts none of its own
C30_WatchpointDispatch ==
    \A t \in Threads :
       (InDispatch(t) /\ ctx[t].kind = "watchpoint")
          => /\ ctx[t].id \in WpIds
             /\ IsFrame(ctx[t].frame)
             /\ pc[t] = "callback" /\ ~ctx[t].finished => _bp_frame = ctx[t].frame
             /\ t = "engine"

\* C31: watchpoints.add deletes, replaces and merges nothing: every watchpoint the target
\* and the table had is still there unchanged, also when the address is watched already;
\* when the engine accepts the request exactly one watchpoint and one entry are added,
\* under a new id, and when it does not nothing changes
C31_WatchpointAddKeepsOthers ==
    [][last'.op = "wp_add"
       => /\ \A id \in DOMAIN target_watchpoints :
                /\ id \in DOMAIN target_watchpoints'
                /\ target_watchpoints'[id] = target_watchpoints[id]
          /\ \A id \in DOMAIN _watchpoints :
                id \in DOMAIN _watchpoints' /\ _watchpoints'[id] = _watchpoints[id]
          /\ last'.removed = {}
          /\ IF last'.raised = None
             THEN /\ last'.id \notin DOMAIN target_watchpoints \cup DOMAIN _watchpoints
                  /\ DOMAIN target_watchpoints' = DOMAIN target_watchpoints \cup {last'.id}
                  /\ DOMAIN _watchpoints' = DOMAIN _watchpoints \cup {last'.id}
                  /\ target_watchpoints'[last'.id].address = last'.where
                  /\ _watchpoints'[last'.id].where = last'.where
             ELSE UNCHANGED <<target_watchpoints, _watchpoints, next_wp_id>>]_vars

\* C31: a second watchpoint has been added at an address that was watched already, and
\* both are in the target and in the table
C31_Witness ==
    /\ last.op = "wp_add" /\ last.raised = None
    /\ \E id \in DOMAIN target_watchpoints :
          /\ id # last.id /\ id \in DOMAIN _watchpoints
          /\ target_watchpoints[id].address = last.where
          /\ _watchpoints[id].where = last.where
    /\ last.id \in DOMAIN target_watchpoints \cap DOMAIN _watchpoints

\* C32: the dispatch of a hit, with a callback that returns or raises and removes nothing,
\* leaves the breakpoint in the target and in the table with the id, where, callback,
\* guarded and enabled it had; setting enabled changes the enabled flag of that breakpoint
\* to the value given, whatever it was, and nothing else
C32_HitAndEnableKeepBreakpoint ==
    [][/\ last'.op = "hit"
          => /\ target_breakpoints' = target_breakpoints
             /\ target_breakpoints'[last'.id].enabled
             /\ last'.id \in DOMAIN _breakpoints'
             /\ \A id \in DOMAIN _breakpoints : _breakpoints'[id] = _breakpoints[id]
             /\ next_bp_id' = next_bp_id
       /\ last'.op = "enabled"
          => /\ target_breakpoints'
                   = [target_breakpoints EXCEPT ![last'.id].enabled = last'.flag]
             /\ DOMAIN target_breakpoints' = DOMAIN target_breakpoints
             /\ _breakpoints' = BpGetTable(target_breakpoints, _breakpoints, last'.id)
             /\ \A id \in DOMAIN _breakpoints : _breakpoints'[id] = _breakpoints[id]
             /\ next_bp_id' = next_bp_id]_vars

\* C32: a guarded breakpoint with a callback has been hit while another breakpoint is
\* disabled
C32_Witness ==
    /\ last.op = "hit" /\ last.callback # None
    /\ last.id \in DOMAIN target_breakpoints
    /\ _breakpoints[last.id].guarded
    /\ \E id \in DOMAIN target_breakpoints : ~target_breakpoints[id].enabled

\* ---------------------------------------------------------------------------------
\* HildaClient.save / load / rebind_symbols: the persisted symbol map

\* add_lldb_symbol, as rebind_symbols and the lazy lookup call it under
\* suppress(AddingLldbSymbolError): the symbol is stored under `name` and under
\* `name{filename}`, unless it has no load address, no name or an unused type
AddLldbSymbol(jar, lldb_symbol) ==
    IF \/ lldb_symbol.address = 0 - 1
       \/ lldb_symbol.name = "<redacted>"
       \/ lldb_symbol.type \notin {"Code", "Runtime", "Data", "ObjCMetaClass"}
    THEN jar
    ELSE With(With(jar, <<lldb_symbol.name>>, lldb_symbol.address),
              <<lldb_symbol.name, lldb_symbol.module>>, lldb_symbol.address)

\* the loop of rebind_symbols over target.modules: image_range is Nothing or Some(<<start, end>>),
\* filename_expr is looked for in the basename of the image
RebindSymbols(jar, image_range, filename_expr) ==
    LET Mapped(i) ==
            /\ filename_expr \in {"", modules[i]}
            /\ image_range = Nothing
               \/ ~(i - 1 < image_range[1][1] \/ i - 1 > image_range[1][2])
        RECURSIVE AddSeq(_, _)
        AddSeq(j, symbols) ==
            IF symbols = <<>> THEN j ELSE AddSeq(AddLldbSymbol(j, Head(symbols)), Tail(symbols))
        RECURSIVE Visit(_, _)
        Visit(j, i) ==
            IF i > Len(modules) THEN j
            ELSE Visit(IF Mapped(i) THEN AddSeq(j, ModuleSymbols(modules[i], added_symbols))
                       ELSE j, i + 1)
    IN  Visit(jar, 1)

\* HildaClient.rebind_symbols(image_range, filename_expr)
rebind_symbols ==
    /\ \E image_range \in {Nothing, Some(<<0, 0>>), Some(<<1, 1>>)}, filename_expr \in {"", "libobjc"} :
          /\ symbols_jar' = RebindSymbols(symbols_jar, image_range, filename_expr)
          /\ _symbols_loaded' = TRUE
          /\ last' = Op("rebind_symbols", 0, None, None, None, FALSE, None, {})
    /\ UNCHANGED <<saved_state, _dynamic_env_loaded, is_running>>
    /\ UNCHANGED <<bpvars, wpvars, _bp_frame, procvars, dvars, monvars, symvars>>

\* HildaClient.save(): the symbols map is written to the file as name -> address
save ==
    /\ saved_state' = Some(symbols_jar)
    /\ last' = Op("save", 0, None, None, None, FALSE, None, {})
    /\ UNCHANGED <<symbols_jar, _symbols_loaded, _dynamic_env_loaded, is_running>>
    /\ UNCHANGED <<bpvars, wpvars, _bp_frame, procvars, dvars, monvars, symvars>>

\* a mutation of load: the first image is rebound and the map is marked loaded before the
\* sanity test of the two rand() calls
load_rebinds_first ==
    /\ saved_state # Nothing
    /\ \E first \in {0, 7}, second \in {0, 7} :
          LET entries == [k \in DOMAIN symbols_jar \cup DOMAIN saved_state[1] |->
                              IF k \in DOMAIN saved_state[1] THEN saved_state[1][k]
                              ELSE symbols_jar[k]]
              stale == first = 0 /\ second = 0
          IN  /\ symbols_jar' = RebindSymbols(entries, Some(<<0, 0>>), "")
              /\ _symbols_loaded' = TRUE
              /\ _dynamic_env_loaded' = IF stale THEN _dynamic_env_loaded ELSE TRUE
              /\ last' = Op("load", 0, IF first = 0 THEN <<first, second>> ELSE <<first>>,
                            None, None, FALSE,
                            IF stale THEN "BrokenLocalSymbolsJarError" ELSE None, {})
    /\ UNCHANGED <<saved_state, is_running>>
    /\ UNCHANGED <<bpvars, wpvars, _bp_frame, procvars, dvars, monvars, symvars>>

\* HildaClient.load(): every saved entry is stored again, rand() is called once or twice
\* (`first`, and `second` when first is 0, are what the calls return), and then the first
\* image is rebound; `rand` is what target.FindSymbols finds for the lazy lookup of
\* symbols.rand. last.where keeps the values the rand() calls returned
load ==
    /\ \E first \in {0, 7}, second \in {0, 7},
          rand \in {Nothing, Some(EngineSymbol("rand", 4864, "Code", "libsystem_c"))} :
          IF saved_state = Nothing
          THEN /\ last' = Op("load", 0, <<>>, None, None, FALSE, "FileNotFoundError", {})
               /\ UNCHANGED <<symbols_jar, _symbols_loaded, _dynamic_env_loaded>>
          ELSE LET entries == [k \in DOMAIN symbols_jar \cup DOMAIN saved_state[1] |->
                                   IF k \in DOMAIN saved_state[1] THEN saved_state[1][k]
                                   ELSE symbols_jar[k]]
                   absent == <<"rand">> \notin DOMAIN entries /\ rand = Nothing
                   looked_up == IF <<"rand">> \in DOMAIN entries \/ rand = Nothing
                                THEN entries ELSE AddLldbSymbol(entries, rand[1])
                   stale == first = 0 /\ second = 0
               IN  IF absent
                   THEN /\ symbols_jar' = entries
                        /\ last' = Op("load", 0, <<>>, None, None, FALSE,
                                      "SymbolAbsentError", {})
                        /\ UNCHANGED <<_symbols_loaded, _dynamic_env_loaded>>
                   ELSE IF stale
                   THEN /\ symbols_jar' = looked_up
                        /\ last' = Op("load", 0, <<first, second>>, None, None, FALSE,
                                      "BrokenLocalSymbolsJarError", {})
                        /\ UNCHANGED <<_symbols_loaded, _dynamic_env_loaded>>
                   ELSE /\ symbols_jar' = RebindSymbols(looked_up, Some(<<0, 0>>), "")
                        /\ _symbols_loaded' = TRUE
                        /\ _dynamic_env_loaded' = TRUE
                        /\ last' = Op("load", 0,
                                      IF first = 0 THEN <<first, second>> ELSE <<first>>,
                                      None, None, FALSE, None, {})
    /\ UNCHANGED <<saved_state, is_running>>
    /\ UNCHANGED <<bpvars, wpvars, _bp_frame, procvars, dvars, monvars, symvars>>

\* the symbol map is rebound, saved and loaded
NextLoad == \/ rebind_symbols \/ save \/ load
SpecLoad == Init /\ [][NextLoad]_vars

\* C33: load raises BrokenLocalSymbolsJarError exactly when both rand() calls returned 0,
\* and then it has not rebound the first image and has left _symbols_loaded (and the
\* dynamic environment) as they were; when a call returned another value load returns
\* with the first image rebound and _symbols_loaded set
C33_LoadRejectsStaleMap ==
    [][last'.op = "load"
       => /\ last'.raised = "BrokenLocalSymbolsJarError" <=> last'.where = <<0, 0>>
          /\ last'.where = <<0, 0>>
             => /\ _symbols_loaded' = _symbols_loaded
                /\ _dynamic_env_loaded' = _dynamic_env_loaded
                /\ DOMAIN symbols_jar' \subseteq DOMAIN symbols_jar \cup DOMAIN saved_state[1]
                                               \cup {<<"rand">>, <<"rand", "libsystem_c">>}
          /\ last'.where \in {<<7>>, <<0, 7>>}
             => /\ last'.raised = None
                /\ _symbols_loaded'
                /\ symbols_jar' = RebindSymbols(symbols_jar', Some(<<0, 0>>), "")]_vars

\* C33: a saved map with entries has been rejected as stale in a session whose symbols
\* were never marked loaded, and the first image's symbols are not in the map
C33_Witness ==
    /\ last.op = "load" /\ last.raised = "BrokenLocalSymbolsJarError"
    /\ saved_state # Nothing /\ DOMAIN saved_state[1] # {}
    /\ ~_symbols_loaded
    /\ <<"isdigit">> \notin DOMAIN symbols_jar

\* ---------------------------------------------------------------------------------
\* Symbol: creation and arithmetic

\* the number of values of an address: 0xFFFFFFFFFFFFFFFF + 1 in Symbol.create
Word == 2 ^ WordBits
\* the integers given to symbol() and to the operators: negative, in range and beyond
Operands == (0 - 2)..(Word + 1)

\* a mutation of SymbolAddress: the value is kept as it is given, without the mask
SymbolAddressUnmasked(value) == value

\* Symbol.create(value, client): `value &= 0xFFFFFFFFFFFFFFFF`, then cls(value)
SymbolAddress(value) == value % Word

\* the Symbol operation performed last: `self` is int(self), `plain` is what the same
\* operations give on plain integers from the integer the first Symbol was created from,
\* `result` is the Symbol the operation returned
SymbolOp(op, self, other, plain, result) ==
    [op |-> op, list |-> None, other |-> other, key |-> plain, resolved |-> self,
     result |-> result, raised |-> None, scanned |-> {}]

\* HildaClient.symbol(address), for an int
symbol_create ==
    /\ \E address \in Operands :
          sym_last' = SymbolOp("symbol", 0, address, address, SymbolAddress(address))
    /\ UNCHANGED <<modules, added_symbols, _symbols, _symbols_by_name, _modules, scans,
                   created, othervars>>

\* Symbol.__add__(other), for the Symbol made last and an int
__add__ ==
    /\ sym_last.op # "init"
    /\ \E other \in Operands :
          /\ sym_last.key + other \in (0 - MaxPlain)..MaxPlain
          /\ sym_last' = SymbolOp("__add__", sym_last.result, other, sym_last.key + other,
                                  SymbolAddress(sym_last.result + other))
    /\ UNCHANGED <<modules, added_symbols, _symbols, _symbols_by_name, _modules, scans,
                   created, othervars>>

\* Symbol.__radd__(other): self.__add__(other)
__radd__ ==
    /\ sym_last.op # "init"
    /\ \E other \in Operands :
          /\ other + sym_last.key \in (0 - MaxPlain)..MaxPlain
          /\ sym_last' = SymbolOp("__radd__", sym_last.result, other, other + sym_last.key,
                                  SymbolAddress(sym_last.result + other))
    /\ UNCHANGED <<modules, added_symbols, _symbols, _symbols_by_name, _modules, scans,
                   created, othervars>>

\* Symbol.__sub__(other)
__sub__ ==
    /\ sym_last.op # "init"
    /\ \E other \in Operands :
          /\ sym_last.key - other \in (0 - MaxPlain)..MaxPlain
          /\ sym_last' = SymbolOp("__sub__", sym_last.result, other, sym_last.key - other,
                                  SymbolAddress(sym_last.result - other))
    /\ UNCHANGED <<modules, added_symbols, _symbols, _symbols_by_name, _modules, scans,
                   created, othervars>>

\* Symbol.__rsub__(other)
__rsub__ ==
    /\ sym_last.op # "init"
    /\ \E other \in Operands :
          /\ other - sym_last.key \in (0 - MaxPlain)..MaxPlain
          /\ sym_last' = SymbolOp("__rsub__", sym_last.result, other, other - sym_last.key,
                                  SymbolAddress(other - sym_last.result))
    /\ UNCHANGED <<modules, added_symbols, _symbols, _symbols_by_name, _modules, scans,
                   created, othervars>>

\* Symbol.__mul__(other)
__mul__ ==
    /\ sym_last.op # "init"
    /\ \E other \in Operands :
          /\ sym_last.key * other \in (0 - MaxPlain)..MaxPlain
          /\ sym_last' = SymbolOp("__mul__", sym_last.result, other, sym_last.key * other,
                                  SymbolAddress(sym_last.result * other))
    /\ UNCHANGED <<modules, added_symbols, _symbols, _symbols_by_name, _modules, scans,
                   created, othervars>>

\* Symbol.__rmul__(other): self.__mul__(other)
__rmul__ ==
    /\ sym_last.op # "init"
    /\ \E other \in Operands :
          /\ other * sym_last.key \in (0 - MaxPlain)..MaxPlain
          /\ sym_last' = SymbolOp("__rmul__", sym_last.result, other, other * sym_last.key,
                                  SymbolAddress(sym_last.result * other))
    /\ UNCHANGED <<modules, added_symbols, _symbols, _symbols_by_name, _modules, scans,
                   created, othervars>>

\* Symbols are created and combined with integers
NextSymbol ==
    \/ symbol_create
    \/ __add__ \/ __radd__
    \/ __sub__ \/ __rsub__
    \/ __mul__ \/ __rmul__
SpecSymbol == Init /\ [][NextSymbol]_vars

\* C34 as stated: Symbol arithmetic gives the integer plain integer arithmetic gives, and
\* the address of a Symbol is the value it was created from taken modulo the word
C34_ArithmeticIsPlain ==
    sym_last.op \in {"symbol", "__add__", "__radd__", "__sub__", "__rsub__", "__mul__",
                     "__rmul__"}
    => /\ sym_last.op # "symbol" => sym_last.result = sym_last.key
       /\ sym_last.op = "symbol" => sym_last.result = sym_last.other % Word

\* C34 amended: the address of a Symbol is the value it was created from modulo the word;
\* an operation between a Symbol and an integer returns the Symbol of its plain result
\* modulo the word, the same in both operand orders for + and *, so a chain of operations
\* gives the plain integer result modulo the word, and gives the plain result itself
\* exactly when that lies in the range of an address
C34_ArithmeticIsModular ==
    LET self == sym_last.resolved
        other == sym_last.other
        result == sym_last.result
    IN  /\ sym_last.op = "symbol" => result = other % Word
        /\ sym_last.op \in {"__add__", "__radd__"} => result = (self + other) % Word
        /\ sym_last.op = "__sub__" => result = (self - other) % Word
        /\ sym_last.op = "__rsub__" => result = (other - self) % Word
        /\ sym_last.op \in {"__mul__", "__rmul__"} => result = (self * other) % Word
        /\ sym_last.op \in {"symbol", "__add__", "__radd__", "__sub__", "__rsub__",
                            "__mul__", "__rmul__"}
           => /\ result \in 0..(Word - 1)
              /\ result = sym_last.key % Word
              /\ result = sym_last.key <=> sym_last.key \in 0..(Word - 1)

\* C34: a subtraction from a Symbol has gone below zero and wrapped around
C34_Witness ==
    /\ sym_last.op = "__sub__"
    /\ sym_last.resolved - sym_last.other < 0
    /\ sym_last.result = sym_last.resolved - sym_last.other + Word

\* C35 as stated: in every list, for every alphanumeric name, _symbols_by_name lists the
\* sym_ids of _symbols that carry the name, each once and no other, and a remove does not
\* fail in the index (KeyError of the name, ValueError of the sym_id)
C35_IndexMatchesTable ==
    /\ \A l \in Lists :
          LET table == DOMAIN _symbols[l]
              index == _symbols_by_name[l]
              indexed == UNION {DOMAIN index[n] : n \in DOMAIN index}
          IN  /\ \A sym_id \in table :
                    sym_id[1] # None /\ IsPlainName(sym_id[1])
                    => /\ sym_id[1] \in DOMAIN index
                       /\ CountOf(index[sym_id[1]], sym_id) = 1
              /\ \A n \in DOMAIN index : \A sym_id \in DOMAIN index[n] :
                    index[n][sym_id] > 0 => sym_id \in table /\ sym_id[1] = n
    /\ sym_last.op = "remove" => sym_last.raised \notin {"KeyError", "ValueError"}

C37_AdoptedOnce ==
    [][/\ \A id \in DOMAIN target_breakpoints \cap DOMAIN _breakpoints :
             id \in DOMAIN target_breakpoints'
             => id \in DOMAIN _breakpoints' /\ _breakpoints'[id] = _breakpoints[id]
       /\ last'.op \in {"get", "getitem", "contains"} /\ last'.where = None
          => /\ last'.id # 0 <=> last'.removed \subseteq DOMAIN target_breakpoints
             /\ last'.id # 0
                => /\ last'.removed = {last'.id}
                   /\ last'.id \in DOMAIN _breakpoints'
                   /\ last'.id \notin DOMAIN _breakpoints
                      => _breakpoints'[last'.id] = AdoptedBreakpoint
       /\ last'.op = "iter"
          => /\ last'.removed = DOMAIN target_breakpoints
             /\ last'.id = Cardinality(DOMAIN target_breakpoints)
             /\ DOMAIN target_breakpoints \subseteq DOMAIN _breakpoints'
       /\ last'.op = "add"
          => \A id \in last'.removed : _breakpoints'[id].where = last'.where
       /\ last'.op = "clear"
          => /\ \A id \in DOMAIN target_breakpoints' : _breakpoints'[id].guarded
             /\ \A id \in DOMAIN target_breakpoints :
                   id \notin DOMAIN _breakpoints => id \in last'.removed]_vars

\* C37: a breakpoint created outside the API, which the table did not hold, has been
\* removed by clear() while a guarded one stays
C37_Witness ==
    /\ last.op = "clear" /\ ~last.flag
    /\ \E id \in last.removed : _breakpoints[id] = AdoptedBreakpoint
    /\ \E id \in DOMAIN target_breakpoints : _breakpoints[id].guarded

\* ---------------------------------------------------------------------------------
\* HildaClient.stop / cont / stopped

\* HildaClient.stop: the debugger is made synchronous, then a running process is stopped
Stop ==
    /\ is_async' = FALSE
    /\ IF process_state = "running"
       THEN /\ process_state' = "stopped"
            /\ stop' = [NoStop EXCEPT !.reason = "signal"]
            /\ selected_frame' = FrameNames[1]
            /\ events' = Append(events, "stopped")
            /\ stops' = stops + 1
       ELSE UNCHANGED <<process_state, stop, selected_frame, events, stops>>

\* stop() typed at the prompt or called by a script
stop_process ==
    /\ process_state = "running" => stops < MaxStops
    /\ Stop
    /\ last' = Op("stop", 0, None, None, None, process_state = "running", None, {})
    /\ UNCHANGED <<bpvars, wpvars, _bp_frame, dvars, monvars, symvars>>
    /\ UNCHANGED clientvars

\* cont() typed at the prompt or called by a script
cont ==
    /\ Cont
    /\ last' = Op("cont", 0, None, None, None, process_state = "running", None, {})
    /\ UNCHANGED <<bpvars, wpvars, _bp_frame, dvars, monvars, symvars>>
    /\ UNCHANGED clientvars

\* `with hilda.stopped():` up to the yield; last.flag is is_running
stopped_enter ==
    /\ Len(is_running) < MaxOps
    /\ process_state = "running" => stops < MaxStops
    /\ IF process_state = "running" THEN Stop ELSE UNCHANGED procvars
    /\ is_running' = Append(is_running, process_state = "running")
    /\ last' = Op("stopped_enter", 0, None, None, None, process_state = "running", None, {})
    /\ UNCHANGED <<bpvars, wpvars, _bp_frame, dvars, monvars, symvars>>
    /\ UNCHANGED <<symbols_jar, saved_state, _symbols_loaded, _dynamic_env_loaded>>

\* a mutation of stopped_exit: the process is continued after the body, without a finally,
\* so not when the body raised
stopped_exit_without_finally ==
    /\ is_running # <<>>
    /\ \E raised \in {None, "Exception"} :
          /\ last' = Op("stopped_exit", 0, None, None, None, is_running[Len(is_running)],
                        raised, {})
          /\ IF is_running[Len(is_running)] /\ raised = None THEN Cont
             ELSE UNCHANGED procvars
    /\ is_running' = SubSeq(is_running, 1, Len(is_running) - 1)
    /\ UNCHANGED <<bpvars, wpvars, _bp_frame, dvars, monvars, symvars>>
    /\ UNCHANGED <<symbols_jar, saved_state, _symbols_loaded, _dynamic_env_loaded>>

\* the finally of the innermost open `with hilda.stopped():`, after a body that returned
\* or raised; last.flag is is_running
stopped_exit ==
    /\ is_running # <<>>
    /\ \E raised \in {None, "Exception"} :
          last' = Op("stopped_exit", 0, None, None, None, is_running[Len(is_running)],
                     raised, {})
    /\ IF is_running[Len(is_running)] THEN Cont ELSE UNCHANGED procvars
    /\ is_running' = SubSeq(is_running, 1, Len(is_running) - 1)
    /\ UNCHANGED <<bpvars, wpvars, _bp_frame, dvars, monvars, symvars>>
    /\ UNCHANGED <<symbols_jar, saved_state, _symbols_loaded, _dynamic_env_loaded>>

\* the process is stopped and continued, at the prompt and around the bodies of
\* `with hilda.stopped():`
NextRun ==
    \/ stop_process
    \/ cont
    \/ stopped_enter
    \/ stopped_exit

SpecRun == Init /\ [][NextRun]_vars

C39_ListenerKeepsPolling ==
    [][/\ pc["listener"] = "idle" /\ pc'["listener"] # "idle"
          => /\ events # <<>> /\ Head(events) = "stopped" /\ events' = Tail(events)
             /\ last_state = "running"
             /\ process_state = "stopped" /\ stop.reason = "watchpoint"
       /\ pc'["listener"] # "dead"]_vars

====
